---- MODULE Spec2Model ----
(***************************************************************************)
(* Session store (hooks/useChat.ts), completion client (services/openai.ts), *)
(* search client (services/tavily.ts) and persistence adapter               *)
(* (utils/storage.ts) of the chat assistant.                                *)
(*                                                                          *)
(* Text is a sequence of characters (one-character strings; a fixed         *)
(* message of the code is a single token).  A session id is a positive      *)
(* number, the null pointer is NoId.                                        *)
(*                                                                          *)
(* React scheduling: a store operation invoked from a UI event reads the    *)
(* values captured by the last render (view), queues its state updates and  *)
(* is rendered before the next event is dispatched; updates queued by the   *)
(* continuation of an await are rendered later, by Render, so an event may  *)
(* still run against the previous render.  Updater functions are applied    *)
(* once, in dispatch order.                                                 *)
(***************************************************************************)
EXTENDS Integers, Sequences, FiniteSets, TLC

VARIABLES
  sessions,          \* useState<Session[]>: the collection
  currentSessionId,  \* useState<string | null>: the active pointer
  isLoading,         \* useState(false)
  chatStatus,        \* useState('idle')
  view,              \* what the last render captured for the callbacks
  hasLoaded,         \* useRef(false): the load effect has run
  storage,           \* localStorage, the current-schema key
  legacy,            \* localStorage, the legacy key
  writable,          \* localStorage.setItem succeeds (it throws when the quota
                     \* is exceeded or storage is disabled)
  groqKey,           \* VITE_GROQ_API_KEY is configured
  tavilyKey,         \* VITE_TAVILY_API_KEY is configured
  nextId,            \* number of ids generateId has handed to sessions
  sends,             \* every accepted sendMessage call, in call order
  lastOp             \* the store operation invoked last, with its argument

vars == <<sessions, currentSessionId, isLoading, chatStatus, view, hasLoaded,
          storage, legacy, writable, groqKey, tavilyKey, nextId, sends, lastOp>>

----------------------------------------------------------------------------
(* Bounds *)

MaxSends == 1
MaxFresh == 1
MaxResults == 6
MaxOver == 1

----------------------------------------------------------------------------
(* Text *)

NoId == 0
\* an id that names no session, ever
GhostId == 0 - 1
TITLE_MAX == 40
MAX_SOURCES == 5

Min(a, b) == IF a < b THEN a ELSE b

RECURSIVE TrimStart(_)
TrimStart(s) ==
  IF s # <<>> /\ Head(s) = " " THEN TrimStart(Tail(s)) ELSE s

RECURSIVE TrimEnd(_)
TrimEnd(s) ==
  IF s # <<>> /\ s[Len(s)] = " " THEN TrimEnd(SubSeq(s, 1, Len(s) - 1)) ELSE s

\* String.prototype.trim
Trim(s) == TrimEnd(TrimStart(s))

\* String.prototype.slice(0, n) and Array.prototype.slice(0, n)
Slice(s, n) == SubSeq(s, 1, Min(Len(s), n))

\* title: 'New Chat'
NewChatTitle == <<"N", "e", "w", " ", "C", "h", "a", "t">>

----------------------------------------------------------------------------
(* Protocol messages, requests and responses of the completion exchange *)

\* OpenAIMessage: user | system | assistant (content or tool calls) | tool
PMsg(role, content) ==
  [role |-> role, content |-> content, nullContent |-> FALSE,
   tool_calls |-> <<>>, tool_call_id |-> "", payload |-> [error |-> "", items |-> <<>>]]

SystemPrompt == <<"You are a helpful, knowledgeable, and thoughtful AI assistant">>

\* a request of doFetch (to = "completion") or of searchWeb's fetch (to = "search")
CompletionCall(messages, includeTools) ==
  [to |-> "completion", tools |-> includeTools, messages |-> messages, query |-> ""]

SearchCall(query) ==
  [to |-> "search", tools |-> FALSE, messages |-> <<>>, query |-> query]

MissingKeyText ==
  <<"Groq API key is not configured. Please add your VITE_GROQ_API_KEY to the .env file.">>
NetworkErrorText ==
  <<"Network error. Please check your internet connection and try again.">>
EmptyResponseText == <<"Received an empty response from the AI. Please try again.">>
NoToolCallText == <<"Model indicated tool use but provided no tool call.">>
InvalidQueryText == <<"Model returned an invalid search query.">>
SyntaxErrorText == <<"Unexpected token < in JSON at position 0">>
FallbackPayload ==
  [error |-> "Web search unavailable. Answer from your training knowledge.",
   items |-> <<>>]

Statuses == {200, 400, 401, 404, 429, 500, 503}

StatusToken(status) ==
  CASE status = 400 -> "Request failed with status 400"
    [] status = 401 -> "Request failed with status 401"
    [] status = 404 -> "Request failed with status 404"
    [] status = 429 -> "Request failed with status 429"
    [] status = 500 -> "Request failed with status 500"
    [] status = 503 -> "Request failed with status 503"
    [] OTHER -> "Request failed with status"

\* A fetch outcome: the promise rejects (kind "reject", msg the error's
\* message) or resolves with a Response (kind "http").  bodyJson: the body
\* parses as JSON; errMsg: error.message of an error body ("" when absent);
\* finish, content, tool_calls: choices[0] of a completion body.
Rejected(msg) ==
  [kind |-> "reject", msg |-> msg, status |-> 0, bodyJson |-> FALSE, errMsg |-> "",
   finish |-> "", content |-> [isString |-> FALSE, text |-> <<>>], tool_calls |-> <<>>]

HttpError(status, bodyJson, errMsg) ==
  [kind |-> "http", msg |-> "", status |-> status, bodyJson |-> bodyJson,
   errMsg |-> errMsg,
   finish |-> "", content |-> [isString |-> FALSE, text |-> <<>>], tool_calls |-> <<>>]

HttpOk(bodyJson, finish, content, toolCalls) ==
  [kind |-> "http", msg |-> "", status |-> 200, bodyJson |-> bodyJson, errMsg |-> "",
   finish |-> finish, content |-> content, tool_calls |-> toolCalls]

StringContent(text) == [isString |-> TRUE, text |-> text]
NullContent == [isString |-> FALSE, text |-> <<>>]

\* ToolCall: id and the JSON-encoded arguments
ToolCall(id, arguments) == [id |-> id, arguments |-> arguments]

\* JSON.parse(arguments).query: throws on invalid JSON; a JSON object
\* without the field yields undefined, which is not an error
ParseQuery(arguments) ==
  CASE arguments = "{\"query\":\"q\"}" -> [throws |-> FALSE, query |-> "q"]
    [] arguments = "{}" -> [throws |-> FALSE, query |-> "undefined"]
    [] OTHER -> [throws |-> TRUE, query |-> ""]

\* msg.toLowerCase().includes('failed to fetch' | 'load failed' | 'networkerror')
IsNetworkMessage(msg) ==
  msg \in {"Failed to fetch", "Load failed", "NetworkError when attempting to fetch resource."}

\* errMsg.includes('Failed to call a function') || errMsg.includes('failed_generation')
IsToolGenerationFailure(errMsg) ==
  errMsg \in {"Failed to call a function. Please adjust your prompt.", "failed_generation"}

\* typeof content !== 'string' || content.trim() === ''
IsBlank(content) == ~content.isString \/ Trim(content.text) = <<>>

\* handleHttpError without the fixed messages
handleHttpErrorGeneric(r) ==
  IF r.bodyJson /\ r.errMsg # "" THEN <<r.errMsg>> ELSE <<StatusToken(r.status)>>

\* handleHttpError: the message of the OpenAIError it throws
handleHttpError(r) ==
  CASE r.status = 401 ->
         <<"Invalid API key. Please check your VITE_GROQ_API_KEY in the .env file.">>
    [] r.status = 429 ->
         <<"Rate limit exceeded. Please wait a moment before sending another message.">>
    [] r.status = 503 -> <<"Service unavailable. Please try again shortly.">>
    [] r.status = 500 -> <<"Groq is experiencing issues. Please try again shortly.">>
    [] OTHER ->
         IF r.bodyJson /\ r.errMsg # "" THEN <<r.errMsg>> ELSE <<StatusToken(r.status)>>

----------------------------------------------------------------------------
(* Search client: services/tavily.ts *)

\* TavilyResult
Result(i, hasContent) ==
  [title |-> "T" \o ToString(i), url |-> "u" \o ToString(i), hasContent |-> hasContent]

SourceLine(i, r) == ToString(i) \o ". [" \o r.title \o "](" \o r.url \o ")"

\* formatSourcesMarkdown without the cap of slice(0, 5)
formatSourcesUncapped(results) ==
  IF Len(results) = 0 THEN <<>>
  ELSE <<"\n\n---\n", "**Sources:**\n">>
         \o [i \in 1..Len(results) |-> SourceLine(i, results[i])]

\* formatSourcesMarkdown
formatSourcesMarkdown(results) ==
  IF Len(results) = 0 THEN <<>>
  ELSE LET top == Slice(results, MAX_SOURCES)
       IN  <<"\n\n---\n", "**Sources:**\n">>
             \o [i \in 1..Len(top) |-> SourceLine(i, top[i])]

\* A search outcome: fetch rejects, or resolves with a Response whose body
\* is JSON or not, with a results array or without one.
SearchRejected ==
  [kind |-> "reject", status |-> 0, bodyJson |-> FALSE, hasResults |-> FALSE,
   results |-> <<>>]
SearchHttp(status, bodyJson, hasResults, results) ==
  [kind |-> "http", status |-> status, bodyJson |-> bodyJson,
   hasResults |-> hasResults, results |-> results]

\* the tool-result payload built from the results (openai.ts 217-223)
ResultsPayload(results) ==
  [error |-> "",
   items |-> [i \in 1..Len(Slice(results, MAX_SOURCES)) |->
               [title |-> results[i].title, url |-> results[i].url]]]

----------------------------------------------------------------------------
(* Completion client: sendChatMessage (services/openai.ts), one execution.     *)
(* pc is the await the execution is suspended at; "done": it has returned or   *)
(* thrown, and result holds the text returned or the message of the error.     *)

NoResult == [kind |-> "none", text |-> <<>>]

\* statusCode of an error that has none, and of an execution that has not thrown
NoStatus == 0 - 1

Notify(c, status) == [c EXCEPT !.statusLog = Append(@, status)]
Issue(c, call) == [c EXCEPT !.calls = Append(@, call)]
Return(c, text) == [c EXCEPT !.pc = "done", !.result = [kind |-> "ok", text |-> text]]
Throw(c, text) == [c EXCEPT !.pc = "done", !.result = [kind |-> "err", text |-> text]]

\* throw new OpenAIError(text, statusCode)
ThrowStatus(c, text, statusCode) == [Throw(c, text) EXCEPT !.statusCode = statusCode]

\* sendChatMessage without the test of the key
ClientStartUnchecked(conversationHistory, hasKey) ==
  LET messages == <<PMsg("system", SystemPrompt)>> \o conversationHistory
      c0 == [pc |-> "start", messages |-> messages, statusLog |-> <<>>, calls |-> <<>>,
             tool_calls |-> <<>>, query |-> "", results |-> <<>>, sources |-> <<>>,
             payload |-> [error |-> "", items |-> <<>>], result |-> NoResult,
             statusCode |-> NoStatus]
  IN  [Issue(Notify(c0, "thinking"), CompletionCall(messages, TRUE))
         EXCEPT !.pc = "req1"]

\* lines 121-141: from the call to the first await
ClientStart(conversationHistory, hasKey) ==
  LET messages == <<PMsg("system", SystemPrompt)>> \o conversationHistory
      c0 == [pc |-> "start", messages |-> messages, statusLog |-> <<>>, calls |-> <<>>,
             tool_calls |-> <<>>, query |-> "", results |-> <<>>, sources |-> <<>>,
             payload |-> [error |-> "", items |-> <<>>], result |-> NoResult,
             statusCode |-> NoStatus]
  IN  IF ~hasKey THEN ThrowStatus(c0, MissingKeyText, 401)
      ELSE [Issue(Notify(c0, "thinking"), CompletionCall(messages, TRUE))
              EXCEPT !.pc = "req1"]

\* the retry with the tool declaration left in
RetryCallWithTools(messages) == CompletionCall(messages, TRUE)

\* line 167: the retry, without the tool declaration
RetryCall(messages) == CompletionCall(messages, FALSE)

\* lines 142-209: the first response
OnFirstResponse(c, r) ==
  IF r.kind = "reject" THEN
    IF IsNetworkMessage(r.msg) THEN ThrowStatus(c, NetworkErrorText, 0)
    ELSE Throw(c, <<"Request failed: " \o r.msg>>)
  ELSE IF r.status # 200 THEN
    IF r.status = 400 THEN
      LET errMsg == IF r.bodyJson THEN r.errMsg ELSE ""
      IN  IF IsToolGenerationFailure(errMsg) THEN
            [Issue(Notify(c, "thinking"), RetryCall(c.messages)) EXCEPT !.pc = "retry"]
          ELSE ThrowStatus(c, IF errMsg # "" THEN <<errMsg>> ELSE <<StatusToken(400)>>,
                           400)
    ELSE ThrowStatus(c, handleHttpError(r), r.status)
  ELSE IF ~r.bodyJson THEN Throw(c, SyntaxErrorText)
  ELSE IF r.finish # "tool_calls" THEN
    IF IsBlank(r.content) THEN Throw(c, EmptyResponseText)
    ELSE Return(c, r.content.text)
  ELSE IF r.tool_calls = <<>> THEN Throw(c, NoToolCallText)
  ELSE LET parsed == ParseQuery(r.tool_calls[1].arguments)
       IN  IF parsed.throws THEN Throw(c, InvalidQueryText)
           ELSE [Notify(c, "searching") EXCEPT
                   !.pc = "import", !.tool_calls = r.tool_calls, !.query = parsed.query]

\* lines 167-174: the response of the retry without tools
OnRetryResponse(c, r) ==
  IF r.kind = "reject" THEN Throw(c, <<r.msg>>)
  ELSE IF r.status # 200 THEN ThrowStatus(c, handleHttpError(r), r.status)
  ELSE IF ~r.bodyJson THEN Throw(c, SyntaxErrorText)
  ELSE IF IsBlank(r.content) THEN Throw(c, EmptyResponseText)
  ELSE Return(c, r.content.text)

\* the second request issued without the notification of line 229
IssueSecondSilent(c, sources, payload) ==
  LET c1 == [c EXCEPT !.sources = sources, !.payload = payload]
      messagesWithToolResult ==
        c.messages
          \o << [PMsg("assistant", <<>>) EXCEPT
                   !.nullContent = TRUE, !.tool_calls = c.tool_calls],
                [PMsg("tool", <<>>) EXCEPT
                   !.payload = payload, !.tool_call_id = c.tool_calls[1].id] >>
  IN  [Issue(c1, CompletionCall(messagesWithToolResult, FALSE)) EXCEPT !.pc = "req2"]

\* lines 229-253: 'thinking', then the second request is issued
IssueSecond(c, sources, payload) ==
  LET c1 == Notify([c EXCEPT !.sources = sources, !.payload = payload], "thinking")
      messagesWithToolResult ==
        c.messages
          \o << [PMsg("assistant", <<>>) EXCEPT
                   !.nullContent = TRUE, !.tool_calls = c.tool_calls],
                [PMsg("tool", <<>>) EXCEPT
                   !.payload = payload, !.tool_call_id = c.tool_calls[1].id] >>
  IN  [Issue(c1, CompletionCall(messagesWithToolResult, FALSE)) EXCEPT !.pc = "req2"]

\* lines 213-215 and tavily.ts 60-78: the dynamic import resolves or rejects;
\* searchWeb throws without a key before any network call
OnImport(c, loaded, hasSearchKey) ==
  IF ~loaded \/ ~hasSearchKey THEN IssueSecond(c, <<>>, FallbackPayload)
  ELSE [Issue(c, SearchCall(c.query)) EXCEPT !.pc = "search"]

\* the search response without the try/catch of lines 213-227: a failure of
\* the search propagates to the caller
OnSearchResponseUncaught(c, r) ==
  IF r.kind = "reject" \/ r.status # 200 \/ ~r.bodyJson \/ ~r.hasResults
    THEN Throw(c, <<"Tavily search failed">>)
  ELSE IssueSecond([c EXCEPT !.results = r.results],
                   formatSourcesMarkdown(r.results), ResultsPayload(r.results))

\* tavily.ts 80-84 and openai.ts 215-229: the search response
OnSearchResponse(c, r) ==
  IF r.kind = "reject" \/ r.status # 200 \/ ~r.bodyJson \/ ~r.hasResults
    THEN IssueSecond(c, <<>>, FallbackPayload)
  ELSE LET sourcesMarkdown == formatSourcesMarkdown(r.results)
           top == Slice(r.results, MAX_SOURCES)
           c1 == [c EXCEPT !.results = r.results]
       IN  IF \E i \in 1..Len(top) : ~top[i].hasContent
             THEN IssueSecond(c1, sourcesMarkdown, FallbackPayload)
             ELSE IssueSecond(c1, sourcesMarkdown, ResultsPayload(r.results))

\* the second response given the retry of the first
OnSecondResponseRetrying(c, r) ==
  IF r.kind = "reject" THEN Throw(c, <<"Request failed: " \o r.msg>>)
  ELSE IF r.status = 400 /\ r.bodyJson /\ IsToolGenerationFailure(r.errMsg) THEN
    [Issue(Notify(c, "thinking"), RetryCall(c.messages)) EXCEPT !.pc = "retry"]
  ELSE IF r.status # 200 THEN ThrowStatus(c, handleHttpError(r), r.status)
  ELSE IF ~r.bodyJson THEN Throw(c, SyntaxErrorText)
  ELSE IF IsBlank(r.content) THEN Throw(c, EmptyResponseText)
  ELSE Return(c, r.content.text \o c.sources)

\* lines 246-264: the second response
OnSecondResponse(c, r) ==
  IF r.kind = "reject" THEN Throw(c, <<"Request failed: " \o r.msg>>)
  ELSE IF r.status # 200 THEN ThrowStatus(c, handleHttpError(r), r.status)
  ELSE IF ~r.bodyJson THEN Throw(c, SyntaxErrorText)
  ELSE IF IsBlank(r.content) THEN Throw(c, EmptyResponseText)
  ELSE Return(c, r.content.text \o c.sources)

----------------------------------------------------------------------------
(* Sessions and messages: types/chat.ts *)

\* new Date().toISOString() at the time of a call: the model has one instant
\* for every call it makes; stored data carries earlier instants
Now == "now"

\* generateId for a message: message ids are written and never read
MessageId == "m"

StoredMessage(role, content, timestamp, isError) ==
  [id |-> MessageId, role |-> role, content |-> content, timestamp |-> timestamp,
   isError |-> isError]

\* a message the store creates; isError FALSE: the field is absent
Message(role, content, isError) == StoredMessage(role, content, Now, isError)

\* generateId for the k-th session created after mount; MountId for the one
\* the load effect creates; stored sessions carry the ids 1 and 2
MountId == 3
FreshId(k) == MountId + k

\* createEmptySession
createEmptySession(id) ==
  [id |-> id, title |-> NewChatTitle, messages |-> <<>>, createdAt |-> Now,
   updatedAt |-> Now, starred |-> "absent"]

Ids(ss) == {ss[i].id : i \in 1..Len(ss)}

HasSession(ss, id) == \E i \in 1..Len(ss) : ss[i].id = id

\* sessions.find(s => s.id === id): the first match
Find(ss, id) == ss[CHOOSE i \in 1..Len(ss) :
                     ss[i].id = id /\ \A j \in 1..(i - 1) : ss[j].id # id]

\* sessions.find(s => s.id === currentSessionId)?.messages ?? []
CurrentMessages(ss, id) == IF HasSession(ss, id) THEN Find(ss, id).messages ELSE <<>>

\* the message put in front of the others
PrependMessage(ss, id, m) ==
  [i \in 1..Len(ss) |->
     IF ss[i].id = id
     THEN [ss[i] EXCEPT !.messages = <<m>> \o @, !.updatedAt = Now]
     ELSE ss[i]]

\* prev.map(s => s.id === id
\*   ? { ...s, messages: [...s.messages, m], updatedAt: now } : s)
AppendMessage(ss, id, m) ==
  [i \in 1..Len(ss) |->
     IF ss[i].id = id
     THEN [ss[i] EXCEPT !.messages = Append(@, m), !.updatedAt = Now]
     ELSE ss[i]]

----------------------------------------------------------------------------
(* Persistence adapter: utils/storage.ts *)

MAX_SESSIONS == 50
LEGACY_TITLE_MAX == 40
PreviousChatTitle == <<"Previous Chat">>

\* What localStorage holds under a key: nothing, or a text that is the empty
\* string ("empty"), not JSON ("garbage"), JSON that is no array ("object"),
\* or a JSON array ("array") whose elements are value.  An element records
\* what the guards ask of it: whether it is a non-null object, the typeof of
\* the fields they test ("array" where Array.isArray holds), and the object.
KeyAbsent == [present |-> FALSE, kind |-> "none", value |-> <<>>]
KeyText(kind) == [present |-> TRUE, kind |-> kind, value |-> <<>>]
KeyArray(elements) == [present |-> TRUE, kind |-> "array", value |-> elements]

MessageShape ==
  [id |-> "string", role |-> "string", content |-> "string", timestamp |-> "string"]
SessionShape ==
  [id |-> "string", title |-> "string", messages |-> "array",
   createdAt |-> "string", updatedAt |-> "string"]

\* JSON.stringify of a Message and of a Session, as JSON.parse reads it back
JsonMessage(m) == [isObject |-> TRUE, typeof |-> MessageShape, value |-> m]
JsonSession(s) ==
  [isObject |-> TRUE, typeof |-> SessionShape,
   value |-> [s EXCEPT !.messages =
                [i \in 1..Len(s.messages) |-> JsonMessage(s.messages[i])]]]

\* lines 98-106
isValidMessage(m) ==
  /\ m.isObject
  /\ m.typeof.id = "string"
  /\ m.typeof.role = "string"
  /\ m.typeof.content = "string"
  /\ m.typeof.timestamp = "string"

\* lines 112-121
isValidSession(s) ==
  /\ s.isObject
  /\ s.typeof.id = "string"
  /\ s.typeof.title = "string"
  /\ s.typeof.messages = "array"
  /\ s.typeof.createdAt = "string"
  /\ s.typeof.updatedAt = "string"

\* saveSessions without the truncation
saveSessionsUncapped(st, ss, ok) ==
  IF ok THEN KeyArray([i \in 1..Len(ss) |-> JsonSession(ss[i])]) ELSE st

\* lines 135-141: the value under SESSIONS_KEY after saveSessions(ss), st
\* being the value before; ok: setItem did not throw
saveSessions(st, ss, ok) ==
  LET kept == Slice(ss, MAX_SESSIONS)
  IN  IF ok THEN KeyArray([i \in 1..Len(kept) |-> JsonSession(kept[i])]) ELSE st

\* a try block without its catch: the exception reaches the caller
Rethrown(threw) == threw

\* try { ... } catch { }: what the caller of saveSessions and of
\* clearAllSessions sees of an exception thrown inside the try block
Caught(threw) == FALSE

\* the way a call ended, as its caller sees it
Returned == 0

Threw == 1

Outcome(threw) == IF threw THEN Threw ELSE Returned

\* lines 205-210: the two keys after clearAllSessions(); fails: the removeItem
\* call that throws (0: none). The second removal is not reached when the
\* first one throws.
clearAllSessions(st, leg, fails) ==
  [storage |-> IF fails = 1 THEN st ELSE KeyAbsent,
   legacy |-> IF fails \in {1, 2} THEN leg ELSE KeyAbsent,
   threw |-> Caught(fails # 0)]

\* if (raw): getItem returned a non-empty text
HasText(st) == st.present /\ st.kind # "empty"

\* a JSON.parse that returns undefined for a text that is not JSON
ParseNeverThrows(st) == FALSE

\* JSON.parse(raw) throws
ParseThrows(st) == HasText(st) /\ st.kind = "garbage"

\* lines 162-167: parsed.filter(isValidSession).map(s => ({ ...s, messages:
\* s.messages.filter(isValidMessage) })), [] when parsed is no array
ValidSessions(st) ==
  LET valid == SelectSeq(st.value, isValidSession)
      Messages(s) ==
        LET kept == SelectSeq(s.value.messages, isValidMessage)
        IN  [i \in 1..Len(kept) |-> kept[i].value]
  IN  IF HasText(st) /\ st.kind = "array"
      THEN [i \in 1..Len(valid) |-> [valid[i].value EXCEPT !.messages = Messages(valid[i])]]
      ELSE <<>>

\* lines 176-178: parsed.filter(isValidMessage), [] when parsed is no array
ValidMessages(leg) ==
  LET kept == SelectSeq(leg.value, isValidMessage)
  IN  IF HasText(leg) /\ leg.kind = "array"
      THEN [i \in 1..Len(kept) |-> kept[i].value]
      ELSE <<>>

\* the migrated session titled like a new one
MigratedSessionNewChat(messages, id) ==
  LET IsUser(m) == m.role = "user"
      users == SelectSeq(messages, IsUser)
  IN  [id |-> id,
       title |-> IF Len(users) > 0 THEN Slice(users[1].content, LEGACY_TITLE_MAX)
                 ELSE NewChatTitle,
       messages |-> messages,
       createdAt |-> messages[1].timestamp,
       updatedAt |-> messages[Len(messages)].timestamp,
       starred |-> "absent"]

\* lines 180-187: the session wrapping the legacy messages
MigratedSession(messages, id) ==
  LET IsUser(m) == m.role = "user"
      users == SelectSeq(messages, IsUser)
  IN  [id |-> id,
       title |-> IF Len(users) > 0 THEN Slice(users[1].content, LEGACY_TITLE_MAX)
                 ELSE PreviousChatTitle,
       messages |-> messages,
       createdAt |-> messages[1].timestamp,
       updatedAt |-> messages[Len(messages)].timestamp,
       starred |-> "absent"]

\* lines 157-198: loadSessions() with st under SESSIONS_KEY and leg under
\* LEGACY_KEY; id: what generateId returns; ok: setItem does not throw.
\* sessions is what it returns, storage and legacy what it leaves behind.
loadSessions(st, leg, ok, id) ==
  LET Untouched(ss) == [sessions |-> ss, storage |-> st, legacy |-> leg]
      current == ValidSessions(st)
      messages == ValidMessages(leg)
      session == MigratedSession(messages, id)
  IN  IF ParseThrows(st) THEN Untouched(<<>>)
      ELSE IF Len(current) > 0 THEN Untouched(current)
      ELSE IF ParseThrows(leg) THEN Untouched(<<>>)
      ELSE IF Len(messages) > 0
           THEN [sessions |-> <<session>>,
                 storage |-> saveSessions(st, <<session>>, ok),
                 legacy |-> KeyAbsent]
           ELSE Untouched(<<>>)

StoredA ==
  [id |-> 1, title |-> <<"q">>, createdAt |-> "t1", updatedAt |-> "t3",
   starred |-> "yes",
   messages |-> << StoredMessage("user", <<"q">>, "t1", FALSE),
                   StoredMessage("assistant", <<"Rate limit exceeded.">>, "t2", TRUE),
                   StoredMessage("assistant", <<"A">>, "t3", FALSE) >>]
StoredB ==
  [id |-> 2, title |-> NewChatTitle, createdAt |-> "t4", updatedAt |-> "t4",
   starred |-> "absent", messages |-> <<>>]

InitialStorage == { KeyAbsent, saveSessions(KeyAbsent, <<StoredA, StoredB>>, TRUE) }

----------------------------------------------------------------------------
(* Session store: hooks/useChat.ts *)

Op(name, id, text) == [op |-> name, id |-> id, text |-> text]

Snapshot(ss, cur, loading) ==
  [sessions |-> ss, currentSessionId |-> cur, isLoading |-> loading]

\* lines 73-77: the persist effect of a render whose sessions changed
Persisted(st, before, after) ==
  IF after # before THEN saveSessions(st, after, writable) ELSE st

\* A render: the callbacks capture the state, then the persist effect runs.
RenderNow ==
  /\ view' = Snapshot(sessions', currentSessionId', isLoading')
  /\ storage' = Persisted(storage, view.sessions, sessions')
  /\ UNCHANGED legacy

Init ==
  /\ sessions = <<>>
  /\ currentSessionId = NoId
  /\ isLoading = FALSE
  /\ chatStatus = "idle"
  /\ view = Snapshot(<<>>, NoId, FALSE)
  /\ hasLoaded = FALSE
  /\ storage \in InitialStorage
  /\ legacy = KeyAbsent
  /\ writable = TRUE
  /\ groqKey \in BOOLEAN
  /\ tavilyKey \in BOOLEAN
  /\ nextId = 0
  /\ sends = <<>>
  /\ lastOp = Op("none", NoId, <<>>)

\* lines 60-71: what the load effect sets the collection to
LoadEffect(stored) ==
  IF Len(stored) > 0 THEN stored ELSE <<createEmptySession(MountId)>>

\* Mount: the load effect, then the persist effect of the first render (its
\* sessions are the initial [], and hasLoaded is already set); under
\* React.StrictMode (main.tsx 15-17, development build) both effects run a
\* second time; then the render of the loaded state and its persist effect.
Mount ==
  /\ ~hasLoaded
  /\ \E strict \in BOOLEAN :
       LET first == loadSessions(storage, legacy, writable, MountId)
           afterFirst == saveSessions(first.storage, <<>>, writable)
           second == loadSessions(afterFirst, first.legacy, writable, MountId)
           afterSecond == saveSessions(second.storage, <<>>, writable)
           loaded == LoadEffect(IF strict THEN second.sessions ELSE first.sessions)
       IN  /\ sessions' = loaded
           /\ currentSessionId' = loaded[1].id
           /\ storage' = saveSessions(IF strict THEN afterSecond ELSE afterFirst,
                                      loaded, writable)
           /\ legacy' = IF strict THEN second.legacy ELSE first.legacy
           /\ view' = Snapshot(loaded, loaded[1].id, FALSE)
  /\ hasLoaded' = TRUE
  /\ UNCHANGED <<isLoading, chatStatus, groqKey, tavilyKey, nextId, sends>>

\* createNewSession without the early return
StaysOnCurrentNever(ss, cur) == FALSE

\* lines 96-97: the current session is found and has no message
StaysOnCurrent(ss, cur) ==
  HasSession(ss, cur) /\ Len(Find(ss, cur).messages) = 0

\* createNewSession keeping the collection within MAX_SESSIONS
CreateNewSessionCapped(limit) ==
  /\ hasLoaded
  /\ IF StaysOnCurrent(view.sessions, view.currentSessionId)
     THEN UNCHANGED <<sessions, currentSessionId, nextId>>
     ELSE /\ nextId < limit
          /\ nextId' = nextId + 1
          /\ sessions' = Slice(<<createEmptySession(FreshId(nextId + 1))>> \o sessions,
                               MAX_SESSIONS)
          /\ currentSessionId' = FreshId(nextId + 1)
  /\ UNCHANGED <<isLoading, chatStatus, hasLoaded, groqKey, tavilyKey, sends>>
  /\ RenderNow

\* lines 94-102: createNewSession, `limit` bounding the sessions ever created
CreateNewSessionUpTo(limit) ==
  /\ hasLoaded
  /\ IF StaysOnCurrent(view.sessions, view.currentSessionId)
     THEN UNCHANGED <<sessions, currentSessionId, nextId>>
     ELSE /\ nextId < limit
          /\ nextId' = nextId + 1
          /\ sessions' = <<createEmptySession(FreshId(nextId + 1))>> \o sessions
          /\ currentSessionId' = FreshId(nextId + 1)
  /\ UNCHANGED <<isLoading, chatStatus, hasLoaded, groqKey, tavilyKey, sends>>
  /\ RenderNow

CreateNewSession == CreateNewSessionUpTo(MaxFresh)

\* lines 104-106
SwitchSession(id) ==
  /\ hasLoaded
  /\ currentSessionId' = id
  /\ UNCHANGED <<sessions, isLoading, chatStatus, hasLoaded, groqKey, tavilyKey,
                 nextId, sends>>
  /\ RenderNow

\* deleteSession without the substitution of a fresh session
SessionsAfterDeleteNoFresh(filtered, fresh) == filtered

\* lines 111-115 and 119: the collection deleteSession's updater returns
SessionsAfterDelete(filtered, fresh) ==
  IF Len(filtered) = 0 THEN <<fresh>> ELSE filtered

\* deleteSession moving the pointer to the first session whatever it deletes
PointerAfterDeleteFirst(filtered, fresh, id, cur) ==
  IF Len(filtered) = 0 THEN fresh.id ELSE filtered[1].id

\* deleteSession without the reassignment of lines 116-118
PointerAfterDeleteKept(filtered, fresh, id, cur) ==
  IF Len(filtered) = 0 THEN fresh.id ELSE currentSessionId

\* lines 113 and 116-118: the pointer after deleteSession(id); cur is the
\* pointer the callback captured
PointerAfterDelete(filtered, fresh, id, cur) ==
  IF Len(filtered) = 0 THEN fresh.id
  ELSE IF id = cur THEN filtered[1].id
  ELSE currentSessionId

\* lines 108-121
DeleteSession(id) ==
  /\ hasLoaded
  /\ LET Keep(s) == s.id # id
         filtered == SelectSeq(sessions, Keep)
         fresh == createEmptySession(FreshId(nextId + 1))
     IN  /\ Len(filtered) = 0 => nextId < MaxFresh
         /\ nextId' = IF Len(filtered) = 0 THEN nextId + 1 ELSE nextId
         /\ sessions' = SessionsAfterDelete(filtered, fresh)
         /\ currentSessionId' =
              PointerAfterDelete(filtered, fresh, id, view.currentSessionId)
  /\ UNCHANGED <<isLoading, chatStatus, hasLoaded, groqKey, tavilyKey, sends>>
  /\ RenderNow

\* renameSession without the trim
RenameSessionUntrimmed(id, newTitle) ==
  /\ hasLoaded
  /\ LET SetTitle(s) == [s EXCEPT !.title = newTitle]
     IN  IF newTitle = <<>> THEN UNCHANGED sessions
         ELSE sessions' = [i \in 1..Len(sessions) |->
                           IF sessions[i].id = id THEN SetTitle(sessions[i])
                           ELSE sessions[i]]
  /\ UNCHANGED <<currentSessionId, isLoading, chatStatus, hasLoaded, groqKey,
                 tavilyKey, nextId, sends>>
  /\ RenderNow

\* lines 124-130
RenameSession(id, newTitle) ==
  /\ hasLoaded
  /\ LET trimmed == Trim(newTitle)
         SetTitle(s) == [s EXCEPT !.title = trimmed]
     IN  IF trimmed = <<>> THEN UNCHANGED sessions
         ELSE sessions' = [i \in 1..Len(sessions) |->
                           IF sessions[i].id = id THEN SetTitle(sessions[i])
                           ELSE sessions[i]]
  /\ UNCHANGED <<currentSessionId, isLoading, chatStatus, hasLoaded, groqKey,
                 tavilyKey, nextId, sends>>
  /\ RenderNow

\* Sidebar.tsx line 151: maxLength of the rename field
RENAME_MAX == 60

\* Sidebar.tsx lines 125-129, SessionItem.commitEdit with editTitle in the
\* rename field of the item of session id: onRename is renameSession
CommitEdit(id, editTitle) ==
  /\ hasLoaded
  /\ HasSession(view.sessions, id)
  /\ LET trimmed == Trim(editTitle)
     IN  IF trimmed # <<>> /\ trimmed # Find(view.sessions, id).title
         THEN RenameSession(id, trimmed)
         ELSE UNCHANGED <<sessions, currentSessionId, isLoading, chatStatus, view,
                          hasLoaded, storage, legacy, groqKey, tavilyKey, nextId, sends>>

\* toggleStarSession that only ever sets the flag
toggleStarSessionSet(ss, id) ==
  [i \in 1..Len(ss) |-> IF ss[i].id = id THEN [ss[i] EXCEPT !.starred = "yes"] ELSE ss[i]]

\* lines 133-137: starred: !s.starred
toggleStarSession(ss, id) ==
  LET Flip(s) == [s EXCEPT !.starred = IF @ = "yes" THEN "no" ELSE "yes"]
  IN  [i \in 1..Len(ss) |-> IF ss[i].id = id THEN Flip(ss[i]) ELSE ss[i]]

ToggleStarSession(id) ==
  /\ hasLoaded
  /\ sessions' = toggleStarSession(sessions, id)
  /\ UNCHANGED <<currentSessionId, isLoading, chatStatus, hasLoaded, groqKey,
                 tavilyKey, nextId, sends>>
  /\ RenderNow

\* clearCurrentSession without the confirmation
ClearCurrentSessionUnasked(confirmed) ==
  /\ hasLoaded
  /\ LET Reset(s) == [s EXCEPT !.messages = <<>>, !.title = NewChatTitle,
                                !.updatedAt = Now]
     IN  sessions' = [i \in 1..Len(sessions) |->
                      IF sessions[i].id = view.currentSessionId
                      THEN Reset(sessions[i]) ELSE sessions[i]]
  /\ UNCHANGED <<currentSessionId, isLoading, chatStatus, hasLoaded, groqKey,
                 tavilyKey, nextId, sends>>
  /\ RenderNow

\* lines 139-146; confirmed: what window.confirm returned
ClearCurrentSession(confirmed) ==
  /\ hasLoaded
  /\ LET Reset(s) == [s EXCEPT !.messages = <<>>, !.title = NewChatTitle,
                                !.updatedAt = Now]
     IN  IF ~confirmed THEN UNCHANGED sessions
         ELSE sessions' = [i \in 1..Len(sessions) |->
                           IF sessions[i].id = view.currentSessionId
                           THEN Reset(sessions[i]) ELSE sessions[i]]
  /\ UNCHANGED <<currentSessionId, isLoading, chatStatus, hasLoaded, groqKey,
                 tavilyKey, nextId, sends>>
  /\ RenderNow

----------------------------------------------------------------------------
(* sendMessage: lines 161-227 *)

\* the early return without the isLoading test
SendRejectedNoLoading(trimmed) ==
  view.currentSessionId = NoId \/ trimmed = <<>>

\* an early return that also looks for the session the pointer names
SendRejectedUnknown(trimmed) ==
  \/ view.currentSessionId = NoId \/ trimmed = <<>> \/ view.isLoading
  \/ ~HasSession(view.sessions, view.currentSessionId)

\* line 163: the early return reads the values the render captured
SendRejected(trimmed) ==
  view.currentSessionId = NoId \/ trimmed = <<>> \/ view.isLoading

\* the history built without the isError filter
ApiHistoryUnfiltered(currentMessages, trimmed) ==
  [i \in 1..Len(currentMessages) |->
     PMsg(currentMessages[i].role, currentMessages[i].content)]
    \o <<PMsg("user", trimmed)>>

\* lines 176-179
ApiHistory(currentMessages, trimmed) ==
  LET NotError(m) == ~m.isError
      AsProtocol(m) == PMsg(m.role, m.content)
      kept == SelectSeq(currentMessages, NotError)
  IN  [i \in 1..Len(kept) |-> AsProtocol(kept[i])]
        \o <<PMsg("user", trimmed)>>

\* the user message added with the title taken from every send
AddUserMessageRetitled(ss, sessionId, trimmed) ==
  LET Add(s) ==
        [s EXCEPT !.messages = Append(@, Message("user", trimmed, FALSE)),
                  !.title = Slice(trimmed, TITLE_MAX),
                  !.updatedAt = Now]
  IN  [i \in 1..Len(ss) |-> IF ss[i].id = sessionId THEN Add(ss[i]) ELSE ss[i]]

\* the auto-title given only to a session that still has the placeholder title
AddUserMessageUnlessRenamed(ss, sessionId, trimmed) ==
  LET Add(s) ==
        LET isFirst == ~\E i \in 1..Len(s.messages) : s.messages[i].role = "user"
        IN  [s EXCEPT !.messages = Append(@, Message("user", trimmed, FALSE)),
                      !.title = IF isFirst /\ @ = NewChatTitle
                                THEN Slice(trimmed, TITLE_MAX) ELSE @,
                      !.updatedAt = Now]
  IN  [i \in 1..Len(ss) |-> IF ss[i].id = sessionId THEN Add(ss[i]) ELSE ss[i]]

\* lines 185-194
AddUserMessage(ss, sessionId, trimmed) ==
  LET Add(s) ==
        LET isFirst == ~\E i \in 1..Len(s.messages) : s.messages[i].role = "user"
        IN  [s EXCEPT !.messages = Append(@, Message("user", trimmed, FALSE)),
                      !.title = IF isFirst THEN Slice(trimmed, TITLE_MAX) ELSE @,
                      !.updatedAt = Now]
  IN  [i \in 1..Len(ss) |-> IF ss[i].id = sessionId THEN Add(ss[i]) ELSE ss[i]]

\* the catch block appending the error as an ordinary message
ResultMessagePlain(result) == Message("assistant", result.text, FALSE)

\* lines 198-222: the message appended for the client's result
ResultMessage(result) == Message("assistant", result.text, result.kind = "err")

\* the response filed under the session active when it arrives
ResponseTargetActive(send) == currentSessionId

\* the session the response of a send is filed under
ResponseTarget(send) == send.sessionId

\* the result dropped when the target has been emptied meanwhile
SettleUnlessCleared(ss, send, client) ==
  IF HasSession(ss, ResponseTarget(send)) /\ Find(ss, ResponseTarget(send)).messages = <<>>
  THEN ss
  ELSE AppendMessage(ss, ResponseTarget(send), ResultMessage(client.result))

\* the result put into a session made anew when the target is gone
SettleRestoring(ss, send, client) ==
  IF HasSession(ss, ResponseTarget(send))
  THEN AppendMessage(ss, ResponseTarget(send), ResultMessage(client.result))
  ELSE <<[createEmptySession(ResponseTarget(send)) EXCEPT
            !.messages = <<ResultMessage(client.result)>>]>> \o ss

\* the result appended by the try block and once more after it
SettleTwice(ss, send, client) ==
  AppendMessage(AppendMessage(ss, ResponseTarget(send), ResultMessage(client.result)),
                ResponseTarget(send), ResultMessage(client.result))

\* the appended message given the role of the last message of the last
\* request
SettleWithLastRole(ss, send, client) ==
  LET sent == IF client.calls = <<>> THEN <<>>
              ELSE client.calls[Len(client.calls)].messages
      role == IF sent = <<>> THEN "assistant" ELSE sent[Len(sent)].role
  IN  AppendMessage(ss, ResponseTarget(send),
                    Message(role, client.result.text, client.result.kind = "err"))

\* lines 196-226 after the await: try or catch, then finally
Settle(ss, send, client) ==
  AppendMessage(ss, ResponseTarget(send), ResultMessage(client.result))

\* the reset at the end of the try block instead of in finally
LoadingAfterTry(result) == result.kind = "err"

\* lines 223-226: finally runs whether the client returned or threw
LoadingAfter(result) == FALSE

\* a finally block that leaves the status alone
StatusAfterKept(result) == "thinking"

StatusAfter(result) == "idle"

\* the promise sendMessage returned: the catch block (lines 209-222) handles
\* whatever the client throws, so the async function returns normally
SendPromise(client) == IF client.pc = "done" THEN "fulfilled" ELSE "pending"

InFlight(send) == send.client.pc # "done"
Finished(send) == send.client.pc = "done"

SendMessage(content) ==
  /\ hasLoaded
  /\ LET trimmed == Trim(content)
     IN  IF SendRejected(trimmed)
         THEN UNCHANGED <<sessions, isLoading, chatStatus, sends>>
         ELSE /\ Len(SelectSeq(sends, Finished)) < MaxSends
              /\ LET sessionId == view.currentSessionId
                     apiHistory ==
                       ApiHistory(CurrentMessages(view.sessions, view.currentSessionId),
                                  trimmed)
                     client == ClientStart(apiHistory, groqKey)
                     send == [sessionId |-> sessionId, content |-> trimmed,
                              client |-> client, promise |-> SendPromise(client)]
                     withUser == AddUserMessage(sessions, sessionId, trimmed)
                 IN  /\ sends' = Append(sends, send)
                     /\ IF client.pc = "done"
                        THEN /\ sessions' = Settle(withUser, send, client)
                             /\ isLoading' = LoadingAfter(client.result)
                             /\ chatStatus' = StatusAfter(client.result)
                        ELSE /\ sessions' = withUser
                             /\ isLoading' = TRUE
                             /\ chatStatus' = client.statusLog[Len(client.statusLog)]
  /\ UNCHANGED <<currentSessionId, hasLoaded, groqKey, tavilyKey, nextId>>
  /\ RenderNow

\* The continuation of an await of send i: the client moves to `client`; its
\* notifications go to setChatStatus; when it has returned or thrown,
\* sendMessage appends the message and resets isLoading and chatStatus.
Resume(i, client) ==
  /\ sends' = [sends EXCEPT ![i].client = client, ![i].promise = SendPromise(client)]
  /\ IF client.pc = "done"
     THEN /\ sessions' = Settle(sessions, sends[i], client)
          /\ isLoading' = LoadingAfter(client.result)
          /\ chatStatus' = StatusAfter(client.result)
     ELSE /\ chatStatus' =
               IF Len(client.statusLog) > Len(sends[i].client.statusLog)
               THEN client.statusLog[Len(client.statusLog)] ELSE chatStatus
          /\ UNCHANGED <<sessions, isLoading>>
  /\ UNCHANGED <<currentSessionId, view, hasLoaded, storage, legacy, groqKey,
                 tavilyKey, nextId>>

FirstResponse(i, r) ==
  /\ sends[i].client.pc = "req1"
  /\ Resume(i, OnFirstResponse(sends[i].client, r))

RetryResponse(i, r) ==
  /\ sends[i].client.pc = "retry"
  /\ Resume(i, OnRetryResponse(sends[i].client, r))

ImportDone(i, loaded) ==
  /\ sends[i].client.pc = "import"
  /\ Resume(i, OnImport(sends[i].client, loaded, tavilyKey))

SearchResponse(i, r) ==
  /\ sends[i].client.pc = "search"
  /\ Resume(i, OnSearchResponse(sends[i].client, r))

SecondResponse(i, r) ==
  /\ sends[i].client.pc = "req2"
  /\ Resume(i, OnSecondResponse(sends[i].client, r))

\* The render React schedules for updates queued outside an event handler
Render ==
  /\ view # Snapshot(sessions, currentSessionId, isLoading)
  /\ view' = Snapshot(sessions, currentSessionId, isLoading)
  /\ storage' = Persisted(storage, view.sessions, sessions)
  /\ UNCHANGED <<sessions, currentSessionId, isLoading, chatStatus, hasLoaded,
                 legacy, groqKey, tavilyKey, nextId, sends>>


----------------------------------------------------------------------------
(* Inputs *)

HiInput == <<" ", "h", "i", " ">>
SendInputs == {<<" ">>, HiInput}
RenameInputs == {<<>>, <<" ">>, HiInput}
IdInputs == Ids(view.sessions) \cup {GhostId}

ToolFailureMessage == "Failed to call a function. Please adjust your prompt."
ValidArguments == "{\"query\":\"q\"}"
AnswerText == <<"A">>

Ascending(n) == [i \in 1..n |-> Result(i, TRUE)]
Descending(n) == [i \in 1..n |-> Result(n + 1 - i, TRUE)]

GoodAnswer == HttpOk(TRUE, "stop", StringContent(AnswerText), <<>>)

\* the outcomes of the first request the store specifications draw from
DirectResponses == { Rejected("Failed to fetch"), GoodAnswer }

\* the outcomes of a completion request that does not ask for a tool
PlainResponses ==
  { Rejected("Failed to fetch"), Rejected("boom"),
    HttpOk(FALSE, "", NullContent, <<>>),
    GoodAnswer,
    HttpOk(TRUE, "stop", StringContent(<<" ">>), <<>>),
    HttpOk(TRUE, "stop", NullContent, <<>>) }
    \cup { HttpError(status, TRUE, errMsg) :
             status \in Statuses \ {200}, errMsg \in {"", ToolFailureMessage, "bad request"} }
    \cup { HttpError(status, FALSE, "") : status \in Statuses \ {200} }

ToolResponses ==
  { HttpOk(TRUE, "tool_calls", NullContent, toolCalls) :
      toolCalls \in { <<>>,
                      <<ToolCall("c1", ValidArguments)>>,
                      <<ToolCall("c1", "{}")>>,
                      <<ToolCall("c1", "no json")>>,
                      <<ToolCall("c1", ValidArguments), ToolCall("c2", ValidArguments)>> } }

FirstResponses == PlainResponses \cup ToolResponses

SearchResponses ==
  { SearchRejected,
    SearchHttp(200, FALSE, FALSE, <<>>),
    SearchHttp(200, TRUE, FALSE, <<>>),
    SearchHttp(200, TRUE, TRUE, <<Result(1, TRUE), Result(2, FALSE)>>) }
    \cup { SearchHttp(status, TRUE, TRUE, Ascending(1)) : status \in Statuses \ {200} }
    \cup { SearchHttp(200, TRUE, TRUE, Ascending(n)) : n \in 0..MaxResults }
    \cup { SearchHttp(200, TRUE, TRUE, Descending(n)) : n \in 2..MaxResults }

SendIndex == 1..Len(sends)

\* a stored session that is starred and has no isError message
StoredC ==
  [id |-> 3, title |-> <<"c">>, createdAt |-> "t5", updatedAt |-> "t6",
   starred |-> "yes",
   messages |-> << StoredMessage("user", <<"c">>, "t5", FALSE),
                   StoredMessage("assistant", <<"A">>, "t6", FALSE) >>]

\* n sessions with the ids 1..n, every third one starred
Many(n) ==
  [k \in 1..n |->
     [StoredA EXCEPT !.id = k, !.starred = IF k % 3 = 0 THEN "yes" ELSE "absent"]]

\* the collections handed to saveSessions: up to MaxOver sessions over the cap
Collections ==
  { <<>>, <<StoredA>>, <<StoredA, StoredB>>, <<StoredC, StoredB, StoredA>> }
    \cup { Many(n) : n \in MAX_SESSIONS..(MAX_SESSIONS + MaxOver) }

\* stored elements the guards reject
NotAnObject(e) == [e EXCEPT !.isObject = FALSE]
NumericId(e) == [e EXCEPT !.typeof.id = "number"]
NoTimestamp(e) == [e EXCEPT !.typeof.timestamp = "undefined"]
NoMessages(e) == [e EXCEPT !.typeof.messages = "undefined"]
WithBadMessage(e) == [e EXCEPT !.value.messages[2] = NoTimestamp(@)]
\* a message whose role is a string the Message type does not have
WithToolRole(e) == [e EXCEPT !.value.messages[2].value.role = "tool"]

\* what the current-schema key may hold at a call of loadSessions
CurrentKeys ==
  { KeyAbsent, KeyText("empty"), KeyText("garbage"), KeyText("object"),
    KeyArray(<<>>),
    KeyArray(<<NotAnObject(JsonSession(StoredA)), NoMessages(JsonSession(StoredB))>>),
    KeyArray(<<NumericId(JsonSession(StoredB)), WithBadMessage(JsonSession(StoredA)),
               JsonSession(StoredB)>>),
    KeyArray(<<JsonSession(StoredB), WithToolRole(JsonSession(StoredA))>>),
    saveSessions(KeyAbsent, <<StoredA, StoredB>>, TRUE) }

HelloWorld == <<"H", "e", "l", "l", "o", " ", "w", "o", "r", "l", "d">>
LongText == [i \in 1..(LEGACY_TITLE_MAX + 1) |-> "x"]

LegacyHello ==
  << StoredMessage("assistant", <<"A">>, "t1", FALSE),
     StoredMessage("user", HelloWorld, "t2", FALSE),
     StoredMessage("user", <<"q">>, "t3", FALSE) >>
LegacyNoUser ==
  << StoredMessage("assistant", <<"A">>, "t1", FALSE),
     StoredMessage("assistant", <<"Rate limit exceeded.">>, "t2", TRUE) >>
LegacyLong ==
  << StoredMessage("user", LongText, "t1", FALSE),
     StoredMessage("assistant", <<"A">>, "t2", FALSE) >>

JsonMessages(ms) == [i \in 1..Len(ms) |-> JsonMessage(ms[i])]

\* what the legacy key may hold at a call of loadSessions
LegacyKeys ==
  { KeyAbsent, KeyText("empty"), KeyText("garbage"), KeyText("object"),
    KeyArray(<<>>),
    KeyArray(<<NotAnObject(JsonMessage(LegacyHello[1]))>>),
    KeyArray(JsonMessages(LegacyHello)),
    KeyArray(JsonMessages(LegacyNoUser)),
    KeyArray(<<NumericId(JsonMessage(LegacyHello[2]))>> \o JsonMessages(LegacyLong)
               \o <<NoTimestamp(JsonMessage(LegacyHello[3]))>>) }

----------------------------------------------------------------------------
(* Specifications *)

\* no call is put on record
Quiet == UNCHANGED <<lastOp, writable>>

\* a call other than sendMessage is put on record
Other == lastOp' = Op("other", NoId, <<>>) /\ UNCHANGED writable

StoreCalls ==
  \/ Mount /\ Quiet
  \/ CreateNewSession /\ Quiet
  \/ \E id \in IdInputs : SwitchSession(id) /\ Quiet
  \/ \E id \in IdInputs : DeleteSession(id) /\ Quiet
  \/ \E confirmed \in BOOLEAN : ClearCurrentSession(confirmed) /\ Quiet

SendCalls == \E content \in SendInputs : SendMessage(content) /\ Quiet

\* the first sendMessage call that gets past the early return
FirstSend == sends = <<>> /\ SendCalls

\* a send that is answered without a tool call
StoreSteps ==
  \/ \E i \in SendIndex, r \in DirectResponses : FirstResponse(i, r) /\ Quiet
  \/ Render /\ Quiet

EditCalls ==
  \/ \E id \in IdInputs, t \in RenameInputs : RenameSession(id, t) /\ Quiet
  \/ \E id \in IdInputs : ToggleStarSession(id) /\ Quiet

ClientSteps ==
  \/ \E i \in SendIndex, r \in FirstResponses : FirstResponse(i, r) /\ Quiet
  \/ \E i \in SendIndex, r \in PlainResponses : RetryResponse(i, r) /\ Quiet
  \/ \E i \in SendIndex, loaded \in BOOLEAN : ImportDone(i, loaded) /\ Quiet
  \/ \E i \in SendIndex, r \in SearchResponses : SearchResponse(i, r) /\ Quiet
  \/ \E i \in SendIndex, r \in PlainResponses : SecondResponse(i, r) /\ Quiet
  \/ Render /\ Quiet

StoreInit == Init /\ tavilyKey

\* the store: every operation on the collection and the pointer, and sends
Next ==
  \/ StoreCalls
  \/ SendCalls
  \/ StoreSteps

Spec == StoreInit /\ [][Next]_vars

\* the store, with the call made last on record
CallNext ==
  \/ \E content \in SendInputs :
       /\ SendMessage(content)
       /\ lastOp' = Op("sendMessage", currentSessionId, Trim(content))
       /\ UNCHANGED writable
  \/ Mount /\ Other
  \/ CreateNewSession /\ Other
  \/ \E id \in IdInputs : SwitchSession(id) /\ Other
  \/ \E id \in IdInputs : DeleteSession(id) /\ Other
  \/ \E confirmed \in BOOLEAN : ClearCurrentSession(confirmed) /\ Other
  \/ \E i \in SendIndex, r \in DirectResponses : FirstResponse(i, r) /\ Other
  \/ Render /\ Other

\* started without stored sessions
CallInit == StoreInit /\ groqKey /\ ~storage.present

CallSpec == CallInit /\ [][CallNext]_vars

\* the store with renameSession and toggleStarSession around one send,
\* started without stored sessions
AllInit == StoreInit /\ groqKey /\ ~storage.present

AllNext ==
  \/ StoreCalls
  \/ EditCalls
  \/ FirstSend
  \/ StoreSteps

AllSpec == AllInit /\ [][AllNext]_vars

\* one execution of sendChatMessage against every outcome of its requests
ClientNext ==
  \/ Mount /\ Quiet
  \/ FirstSend
  \/ ClientSteps

ClientSpec == Init /\ [][ClientNext]_vars

\* the outcomes the liveness specification draws from: one of each kind
LiveFirst ==
  { Rejected("Failed to fetch"), GoodAnswer, HttpError(400, TRUE, ToolFailureMessage),
    HttpOk(TRUE, "tool_calls", NullContent, <<ToolCall("c1", ValidArguments)>>),
    HttpOk(TRUE, "tool_calls", NullContent, <<ToolCall("c1", "no json")>>) }
LivePlain == { Rejected("Failed to fetch"), GoodAnswer }
LiveSearch == { SearchRejected, SearchHttp(200, TRUE, TRUE, Ascending(1)) }

LiveFirstResponse ==
  \E i \in SendIndex, r \in LiveFirst : FirstResponse(i, r) /\ Quiet
LiveRetryResponse ==
  \E i \in SendIndex, r \in LivePlain : RetryResponse(i, r) /\ Quiet
LiveImportDone ==
  \E i \in SendIndex, loaded \in BOOLEAN : ImportDone(i, loaded) /\ Quiet
LiveSearchResponse ==
  \E i \in SendIndex, r \in LiveSearch : SearchResponse(i, r) /\ Quiet
LiveSecondResponse ==
  \E i \in SendIndex, r \in LivePlain : SecondResponse(i, r) /\ Quiet
LiveRender == Render /\ Quiet

LiveNext ==
  \/ Mount /\ Quiet
  \/ SendCalls
  \/ \E id \in IdInputs : DeleteSession(id) /\ Quiet
  \/ LiveFirstResponse
  \/ LiveRetryResponse
  \/ LiveImportDone
  \/ LiveSearchResponse
  \/ LiveSecondResponse
  \/ LiveRender

\* every issued request resolves or rejects, every import settles, and
\* React renders the updates it has queued
LiveSpec ==
  /\ Init
  /\ [][LiveNext]_vars
  /\ WF_vars(LiveFirstResponse)
  /\ WF_vars(LiveRetryResponse)
  /\ WF_vars(LiveImportDone)
  /\ WF_vars(LiveSearchResponse)
  /\ WF_vars(LiveSecondResponse)
  /\ WF_vars(LiveRender)

\* the store without the completion credential: no request is ever issued
KeylessInit == StoreInit /\ ~groqKey

KeylessNext ==
  \/ StoreCalls
  \/ SendCalls

KeylessSpec == KeylessInit /\ [][KeylessNext]_vars

\* a call is put on record by its name
Called(name) == lastOp' = Op(name, NoId, <<>>) /\ UNCHANGED writable

\* the operations on the collection and the pointer, without sends;
\* whether the call made last was createNewSession is on record
SessionNext ==
  \/ Mount /\ Other
  \/ CreateNewSession /\ Called("createNewSession")
  \/ \E id \in IdInputs : SwitchSession(id) /\ Other
  \/ \E id \in IdInputs : DeleteSession(id) /\ Other
  \/ \E id \in IdInputs, t \in RenameInputs : RenameSession(id, t) /\ Other
  \/ \E confirmed \in BOOLEAN : ClearCurrentSession(confirmed) /\ Other

SessionInit == StoreInit /\ groqKey

SessionSpec == SessionInit /\ [][SessionNext]_vars

\* createNewSession, switchSession and sendMessage from the single empty
\* session of a first visit, with room for one more creation
FirstVisitNext ==
  \/ Mount /\ Quiet
  \/ CreateNewSessionUpTo(MaxFresh + 1) /\ Quiet
  \/ \E id \in IdInputs : SwitchSession(id) /\ Quiet
  \/ SendCalls
  \/ StoreSteps

FirstVisitInit == StoreInit /\ groqKey /\ ~storage.present

FirstVisitSpec == FirstVisitInit /\ [][FirstVisitNext]_vars

\* an input longer than a title, between spaces
PaddedLongInput == <<" ">> \o [i \in 1..(TITLE_MAX + 1) |-> "y"] \o <<" ">>

TitleInputs == {HiInput, PaddedLongInput}

\* a rename field that takes one character more than maxLength
RenameFieldUnbounded ==
  {<<" ">>, HiInput, [i \in 1..(RENAME_MAX + 1) |-> "z"]}

\* what the rename field can hold: at most maxLength characters
RenameField ==
  {<<" ">>, HiInput, <<" ">> \o [i \in 1..(RENAME_MAX - 1) |-> "z"],
   [i \in 1..RENAME_MAX |-> "z"]}

\* sends of short and long inputs into stored and new sessions, and renames
\* through the rename field of the sidebar
TitleNext ==
  \/ Mount /\ Quiet
  \/ \E id \in IdInputs, editTitle \in RenameField : CommitEdit(id, editTitle) /\ Quiet
  \/ \E id \in IdInputs : SwitchSession(id) /\ Quiet
  \/ \E content \in TitleInputs : SendMessage(content) /\ Quiet
  \/ StoreSteps

TitleInit == StoreInit /\ groqKey

TitleSpec == TitleInit /\ [][TitleNext]_vars

\* the title the sidebar shows for the active session, none when the pointer
\* names no session
ActiveTitle ==
  IF HasSession(view.sessions, view.currentSessionId)
  THEN Find(view.sessions, view.currentSessionId).title
  ELSE <<>>

\* renames through the rename field and sends; lastOp records the title the
\* active session had when sendMessage last got past its early return
RetitleNext ==
  \/ \E content \in TitleInputs :
       /\ SendMessage(content)
       /\ lastOp' = IF Len(sends') > Len(sends)
                    THEN Op("sendMessage", view.currentSessionId, ActiveTitle)
                    ELSE lastOp
       /\ UNCHANGED writable
  \/ Mount /\ Quiet
  \/ \E id \in IdInputs, editTitle \in RenameField : CommitEdit(id, editTitle) /\ Quiet
  \/ \E id \in IdInputs : SwitchSession(id) /\ Quiet
  \/ StoreSteps

RetitleInit == StoreInit /\ groqKey

RetitleSpec == RetitleInit /\ [][RetitleNext]_vars

\* MAX_SESSIONS stored sessions with messages, their ids apart from those of
\* the sessions created later
FullStore ==
  [k \in 1..MAX_SESSIONS |-> [StoredA EXCEPT !.id = 100 + k]]

\* the items of the sidebar clicked: the first and the last session
EndIds ==
  IF view.sessions = <<>> THEN {}
  ELSE {view.sessions[1].id, view.sessions[Len(view.sessions)].id}

\* the items deleted: those at the ends of a list of more than MAX_SESSIONS
OverflowIds ==
  IF Len(view.sessions) > MAX_SESSIONS THEN EndIds ELSE {}

\* the store started on a full storage
FullInit ==
  /\ sessions = <<>>
  /\ currentSessionId = NoId
  /\ isLoading = FALSE
  /\ chatStatus = "idle"
  /\ view = Snapshot(<<>>, NoId, FALSE)
  /\ hasLoaded = FALSE
  /\ storage = saveSessions(KeyAbsent, FullStore, TRUE)
  /\ legacy = KeyAbsent
  /\ writable = TRUE
  /\ groqKey = TRUE
  /\ tavilyKey = TRUE
  /\ nextId = 0
  /\ sends = <<>>
  /\ lastOp = Op("none", NoId, <<>>)

FullNext ==
  \/ Mount /\ Quiet
  \/ CreateNewSession /\ Quiet
  \/ \E id \in EndIds : SwitchSession(id) /\ Quiet
  \/ \E id \in OverflowIds : DeleteSession(id) /\ Quiet
  \/ SendCalls
  \/ StoreSteps

FullSpec == FullInit /\ [][FullNext]_vars

\* The persistence adapter on its own: a caller holding the collection
\* `sessions` calls saveSessions(sessions) and loadSessions() in any order;
\* lastOp records the call made last and, in text, what it returned.
StorageInit ==
  /\ sessions \in Collections
  /\ storage \in CurrentKeys
  /\ legacy \in LegacyKeys
  /\ writable \in BOOLEAN
  /\ currentSessionId = NoId
  /\ isLoading = FALSE
  /\ chatStatus = "idle"
  /\ view = Snapshot(<<>>, NoId, FALSE)
  /\ hasLoaded = FALSE
  /\ groqKey = TRUE
  /\ tavilyKey = TRUE
  /\ nextId = 0
  /\ sends = <<>>
  /\ lastOp = Op("none", NoId, <<>>)

StorageFrame ==
  UNCHANGED <<sessions, currentSessionId, isLoading, chatStatus, view, hasLoaded,
              writable, groqKey, tavilyKey, nextId, sends>>

SaveSessions ==
  /\ storage' = saveSessions(storage, sessions, writable)
  /\ lastOp' = Op("saveSessions", Outcome(Caught(~writable)), <<>>)
  /\ UNCHANGED legacy
  /\ StorageFrame

LoadSessions ==
  /\ LET loaded == loadSessions(storage, legacy, writable, MountId)
     IN  /\ storage' = loaded.storage
         /\ legacy' = loaded.legacy
         /\ lastOp' = Op("loadSessions", NoId, loaded.sessions)
  /\ StorageFrame

\* removeItem calls that throw: none, the first, the second
RemovalFailures == 0..2

ClearAllSessions(fails) ==
  /\ LET cleared == clearAllSessions(storage, legacy, fails)
     IN  /\ storage' = cleared.storage
         /\ legacy' = cleared.legacy
         /\ lastOp' = Op("clearAllSessions", Outcome(cleared.threw), <<>>)
  /\ StorageFrame

StorageNext ==
  \/ SaveSessions
  \/ LoadSessions
  \/ \E fails \in RemovalFailures : ClearAllSessions(fails)

StorageSpec == StorageInit /\ [][StorageNext]_vars

----------------------------------------------------------------------------
(* Properties *)

PendingSends == {i \in SendIndex : InFlight(sends[i])}

Last(s) == s[Len(s)]

\* C1: at most one send is in flight at any time, and a sendMessage call made
\* while a send is pending is a no-op, whichever session is active: it
\* appends no message to any session, issues no request (the record of sends
\* and of their requests is unchanged) and changes neither isLoading nor
\* chatStatus.
C1_SingleFlight ==
  [][ /\ Cardinality({i \in 1..Len(sends') : InFlight(sends'[i])}) <= 1
      /\ \A content \in SendInputs :
           (SendMessage(content) /\ PendingSends # {}) =>
             UNCHANGED <<sessions, currentSessionId, isLoading, chatStatus, sends,
                         storage>> ]_vars

\* a sendMessage call with non-blank content was just made on a session
\* other than the one whose send is still pending
C1_Witness ==
  /\ lastOp.op = "sendMessage"
  /\ lastOp.text = <<"h", "i">>
  /\ Len(sends) = 1
  /\ InFlight(sends[1])
  /\ HasSession(sessions, lastOp.id)
  /\ lastOp.id # sends[1].sessionId

\* C2: the response or error of a send is appended to the session that was
\* active when sendMessage was invoked, whatever session is active when it
\* arrives, and the messages of every other session are unchanged.
C2_CapturedTarget ==
  [][ /\ \A content \in SendInputs :
           (SendMessage(content) /\ Len(sends') > Len(sends)) =>
             Last(sends').sessionId = currentSessionId
      /\ \A i \in SendIndex, r \in DirectResponses :
           FirstResponse(i, r) =>
             /\ Len(sessions') = Len(sessions)
             /\ \A k \in 1..Len(sessions) :
                  sessions'[k] =
                    IF sessions[k].id = sends[i].sessionId
                    THEN [sessions[k] EXCEPT !.messages =
                            Append(@, Message("assistant", sends'[i].client.result.text,
                                              sends'[i].client.result.kind = "err"))]
                    ELSE sessions[k] ]_vars

\* the response has just arrived (no render since) while another session is
\* active, and it is the last message of the session the send was made in
C2_Witness ==
  /\ Len(sends) = 1
  /\ Finished(sends[1])
  /\ view.isLoading /\ ~isLoading
  /\ currentSessionId # sends[1].sessionId
  /\ HasSession(sessions, currentSessionId)
  /\ HasSession(sessions, sends[1].sessionId)
  /\ Last(Find(sessions, sends[1].sessionId).messages).role = "assistant"
  /\ \A m \in {Find(sessions, currentSessionId).messages[k] :
                 k \in 1..Len(Find(sessions, currentSessionId).messages)} :
       m # Last(Find(sessions, sends[1].sessionId).messages)

PointerOK == currentSessionId = NoId \/ HasSession(sessions, currentSessionId)

\* C3 as stated: after the initial load the pointer, when non-null, is the id
\* of a session of the collection in every reachable state.
C3_PointerValid == hasLoaded => PointerOK

\* C3 as amended: the load effect leaves the pointer on a session of the
\* collection, and every operation keeps it on one, except switchSession
\* called with an id that is not in the collection.
C3_PointerPreserved ==
  [][ /\ Mount => PointerOK'
      /\ (hasLoaded /\ PointerOK) =>
           \/ PointerOK'
           \/ \E id \in IdInputs : ~HasSession(sessions, id) /\ SwitchSession(id) ]_vars

\* the active session, created after mount, has been deleted while the
\* mounted one remained, and the pointer is on the mounted one
C3_Witness ==
  /\ nextId = 1
  /\ ~HasSession(sessions, FreshId(1))
  /\ HasSession(sessions, MountId)
  /\ currentSessionId = MountId

\* C4: once the initial load has run, the collection holds at least one
\* session in every reachable state.
C4_NonEmpty == hasLoaded => Len(sessions) >= 1

\* the only session was deleted while its send was in flight, and a fresh
\* empty session has taken its place
C4_Witness ==
  /\ hasLoaded
  /\ Len(sends) = 1
  /\ InFlight(sends[1])
  /\ sends[1].sessionId = MountId
  /\ sessions = <<createEmptySession(FreshId(1))>>

Thinking == <<"thinking">>
ThinkingTwice == <<"thinking", "thinking">>
ThinkingSearching == <<"thinking", "searching">>
ThinkingSearchingThinking == <<"thinking", "searching", "thinking">>

\* C5 as stated: every execution of the completion operation has notified
\* exactly [thinking] or [thinking, searching, thinking] when it ends.
C5_FixedSequence ==
  \A i \in SendIndex :
    Finished(sends[i]) =>
      sends[i].client.statusLog \in {Thinking, ThinkingSearchingThinking}

\* C5 as amended: an execution that finds no credential notifies nothing;
\* one that issues request 1 only notifies [thinking]; one that retries
\* after the 400 notifies [thinking, thinking]; one that takes the tool path
\* past the argument check notifies [thinking, searching, thinking]; the
\* notifications are issued in that order, and none after the end.
C5_Sequences ==
  /\ [](\A i \in SendIndex :
          LET c == sends[i].client
          IN  /\ c.statusLog \in {<<>>, Thinking, ThinkingTwice, ThinkingSearching,
                                  ThinkingSearchingThinking}
              /\ Finished(sends[i]) =>
                   \/ c.statusLog = <<>> /\ ~groqKey /\ c.calls = <<>>
                   \/ c.statusLog = Thinking /\ groqKey /\ Len(c.calls) = 1
                   \/ /\ c.statusLog = ThinkingTwice
                      /\ c.calls = <<CompletionCall(c.messages, TRUE),
                                     CompletionCall(c.messages, FALSE)>>
                   \/ /\ c.statusLog = ThinkingSearchingThinking
                      /\ c.tool_calls # <<>>
                      /\ Last(c.calls).to = "completion"
                      /\ Last(Last(c.calls).messages).role = "tool")
  /\ [][\A i \in SendIndex :
          Finished(sends[i]) =>
            sends'[i].client.statusLog = sends[i].client.statusLog]_vars

\* an execution that retried after the 400 and returned the retry's content
C5_Witness ==
  \E i \in SendIndex :
    /\ Finished(sends[i])
    /\ sends[i].client.statusLog = ThinkingTwice
    /\ sends[i].client.result.kind = "ok"

\* C6: every accepted sendMessage eventually ends with isLoading = false and
\* chatStatus = idle, whatever the outcome of its requests.
C6_EventuallyIdle ==
  /\ \A i \in 1..MaxSends :
       (Len(sends) >= i) ~>
         (Len(sends) >= i /\ Finished(sends[i]) /\ ~isLoading /\ chatStatus = "idle")
  /\ isLoading ~> (~isLoading /\ chatStatus = "idle")

\* a send that failed at request 2, after the search, has ended idle
C6_Witness ==
  \E i \in SendIndex :
    /\ Finished(sends[i])
    /\ sends[i].client.statusLog = ThinkingSearchingThinking
    /\ sends[i].client.result.kind = "err"
    /\ ~isLoading
    /\ chatStatus = "idle"

\* C7 as stated: a completion failure appends exactly one assistant message
\* with isError = true and the error's text to the target session.
C7_ErrorAppended ==
  [][\A i \in SendIndex, r \in DirectResponses :
       (FirstResponse(i, r) /\ sends'[i].client.result.kind = "err") =>
         /\ HasSession(sessions', sends[i].sessionId)
         /\ Last(Find(sessions', sends[i].sessionId).messages) =
              Message("assistant", sends'[i].client.result.text, TRUE)]_vars

\* C7 as amended: sendMessage never rejects, and a completion failure
\* appends exactly one assistant message with isError = true and the error's
\* text to the target session when that session is in the collection at that
\* moment, and appends nothing anywhere when it is not.
C7_ErrorCaught ==
  /\ [](\A i \in SendIndex :
          /\ sends[i].promise \in {"pending", "fulfilled"}
          /\ Finished(sends[i]) => sends[i].promise = "fulfilled")
  /\ [][ /\ \A i \in SendIndex, r \in DirectResponses :
              (FirstResponse(i, r) /\ (r.kind = "reject" \/ r.status # 200)) =>
                /\ sends'[i].client.result.kind = "err"
                /\ r = Rejected("Failed to fetch") =>
                     sends'[i].client.result.text = NetworkErrorText
                /\ Len(sessions') = Len(sessions)
                /\ \A k \in 1..Len(sessions) :
                     sessions'[k] =
                       IF sessions[k].id = sends[i].sessionId
                       THEN [sessions[k] EXCEPT !.messages =
                               Append(@, Message("assistant",
                                                 sends'[i].client.result.text, TRUE))]
                       ELSE sessions[k]
         /\ \A content \in SendInputs :
              (SendMessage(content) /\ Len(sends') > Len(sends) /\ ~groqKey) =>
                /\ Len(sessions') = Len(sessions)
                /\ \A k \in 1..Len(sessions) :
                     IF sessions[k].id = currentSessionId
                     THEN sessions'[k].messages =
                            sessions[k].messages
                              \o << Message("user", Trim(content), FALSE),
                                    Message("assistant", MissingKeyText, TRUE) >>
                     ELSE sessions'[k] = sessions[k] ]_vars

\* request 1 failed in transport, and the error message is the last message
\* of the target session
C7_Witness ==
  \E i \in SendIndex :
    /\ Finished(sends[i])
    /\ sends[i].promise = "fulfilled"
    /\ sends[i].client.result = [kind |-> "err", text |-> NetworkErrorText]
    /\ HasSession(sessions, sends[i].sessionId)
    /\ Last(Find(sessions, sends[i].sessionId).messages) =
         Message("assistant", NetworkErrorText, TRUE)

\* a response with status 200, a JSON body and non-blank string content
GoodContent(r) ==
  r.kind = "http" /\ r.status = 200 /\ r.bodyJson /\ r.content.isString
    /\ Trim(r.content.text) # <<>>

\* C8: when request 1 returns 400 with the body's message "Failed to call a
\* function", the operation issues one more request with the same messages
\* and no tool declaration; whatever that request's response is, the
\* operation ends without another request, two in total, and returns the
\* retry's content when there is one.
C8_RetryOnce ==
  [][\A i \in SendIndex :
       /\ \A r \in FirstResponses :
            ( /\ FirstResponse(i, r)
              /\ r.kind = "http" /\ r.status = 400 /\ r.bodyJson
              /\ r.errMsg = ToolFailureMessage ) =>
              /\ sends'[i].client.pc = "retry"
              /\ sends'[i].client.calls =
                   << CompletionCall(sends[i].client.messages, TRUE),
                      CompletionCall(sends[i].client.messages, FALSE) >>
       /\ \A r \in PlainResponses :
            RetryResponse(i, r) =>
              /\ Finished(sends'[i])
              /\ sends'[i].client.calls = sends[i].client.calls
              /\ Len(sends'[i].client.calls) = 2
              /\ sends'[i].client.result =
                   IF GoodContent(r) THEN [kind |-> "ok", text |-> r.content.text]
                   ELSE [kind |-> "err", text |-> sends'[i].client.result.text] ]_vars

\* the retry was itself answered 400 "Failed to call a function" and was not
\* retried
C8_Witness ==
  \E i \in SendIndex :
    /\ Finished(sends[i])
    /\ Len(sends[i].client.calls) = 2
    /\ ~sends[i].client.calls[2].tools
    /\ sends[i].client.tool_calls = <<>>
    /\ sends[i].client.result = [kind |-> "err", text |-> <<ToolFailureMessage>>]

\* request 2 as issued with the fallback payload as the tool result
FallbackRequest(c) ==
  /\ c.pc = "req2"
  /\ c.sources = <<>>
  /\ Last(c.calls).to = "completion"
  /\ Last(Last(c.calls).messages).role = "tool"
  /\ Last(Last(c.calls).messages).payload = FallbackPayload

\* C9: a failure of the search (no search credential, in which case no
\* search request is issued; a non-success status; a transport failure)
\* does not fail the send: request 2 is issued with the fallback payload as
\* the tool result, and the text returned is request 2's content alone.
C9_SearchFallback ==
  [][\A i \in SendIndex :
       /\ \A loaded \in BOOLEAN :
            (ImportDone(i, loaded) /\ ~tavilyKey) =>
              /\ FallbackRequest(sends'[i].client)
              /\ sends'[i].client.calls =
                   Append(sends[i].client.calls, Last(sends'[i].client.calls))
       /\ \A r \in SearchResponses :
            (SearchResponse(i, r) /\ (r.kind = "reject" \/ r.status # 200)) =>
              FallbackRequest(sends'[i].client)
       /\ \A r \in PlainResponses :
            ( /\ SecondResponse(i, r)
              /\ sends[i].client.payload = FallbackPayload
              /\ sends[i].client.sources = <<>>
              /\ GoodContent(r) ) =>
              /\ sends'[i].client.result = [kind |-> "ok", text |-> r.content.text]
              /\ Last(Find(sessions', sends[i].sessionId).messages) =
                   Message("assistant", r.content.text, FALSE) ]_vars

\* without a search credential the send ended with request 2's content and
\* no search request among its two requests
C9_Witness ==
  \E i \in SendIndex :
    /\ ~tavilyKey
    /\ Finished(sends[i])
    /\ sends[i].client.statusLog = ThinkingSearchingThinking
    /\ Len(sends[i].client.calls) = 2
    /\ \A k \in 1..2 : sends[i].client.calls[k].to = "completion"
    /\ sends[i].client.payload = FallbackPayload
    /\ sends[i].client.result = [kind |-> "ok", text |-> AnswerText]

\* the citation block of C10: empty for no results, otherwise a separator, a
\* Sources label and min(n, 5) entries numbered from 1 in the order of results
CitationEntry(k, r) == ToString(k) \o ". [" \o r.title \o "](" \o r.url \o ")"

CitationBlock(results) ==
  IF Len(results) = 0 THEN <<>>
  ELSE [k \in 1..(2 + Min(Len(results), 5)) |->
          IF k = 1 THEN "\n\n---\n"
          ELSE IF k = 2 THEN "**Sources:**\n"
          ELSE CitationEntry(k - 2, results[k - 2])]

\* C10: on the tool path, when the search returned n results and request 2
\* returns non-blank content c, the text of the stored assistant message is
\* c followed by the citation block of the results.
C10_StoredText ==
  [][\A i \in SendIndex, r \in PlainResponses :
       (SecondResponse(i, r) /\ GoodContent(r)) =>
         LET text == r.content.text \o CitationBlock(sends[i].client.results)
         IN  /\ sends'[i].client.result = [kind |-> "ok", text |-> text]
             /\ Last(Find(sessions', sends[i].sessionId).messages) =
                  Message("assistant", text, FALSE) ]_vars

\* a search that returned more than five results, in descending order, and
\* the stored text: the content, the separator, the label and five entries
C10_Witness ==
  \E i \in SendIndex :
    /\ Finished(sends[i])
    /\ sends[i].client.results = Descending(MaxResults)
    /\ sends[i].client.result.kind = "ok"
    /\ Len(sends[i].client.result.text) = Len(AnswerText) + 2 + 5
    /\ Last(Find(sessions, sends[i].sessionId).messages).content =
         sends[i].client.result.text

\* tool-call arguments that are not JSON, and JSON without a query field
NotJsonArguments == "no json"
NoQueryArguments == "{}"

\* C11: when request 1 asks for a tool call whose arguments fail to parse as
\* JSON, or parse but hold no query field, the operation fails with the
\* invalid-arguments error and issues neither the search request nor
\* request 2.
C11_InvalidArguments ==
  [][\A i \in SendIndex, r \in ToolResponses :
       ( /\ FirstResponse(i, r)
         /\ r.tool_calls # <<>>
         /\ r.tool_calls[1].arguments \in {NotJsonArguments, NoQueryArguments} ) =>
         /\ sends'[i].client.result = [kind |-> "err", text |-> InvalidQueryText]
         /\ sends'[i].client.calls = sends[i].client.calls ]_vars

\* the role and content of every message of ms that is not flagged isError
RECURSIVE WithoutErrors(_)
WithoutErrors(ms) ==
  IF ms = <<>> THEN <<>>
  ELSE ( IF Head(ms).isError THEN <<>>
         ELSE <<[role |-> Head(ms).role, content |-> Head(ms).content]>> )
         \o WithoutErrors(Tail(ms))

RoleAndContent(ms) ==
  [k \in 1..Len(ms) |-> [role |-> ms[k].role, content |-> ms[k].content]]

\* C12: the history a send passes to the completion client is the target
\* session's messages as they are at invocation, without the isError ones
\* and in order, followed by the new user message; request 1 carries it
\* after the system prompt, and nothing done afterwards changes it.
C12_HistorySnapshot ==
  [][ /\ \A content \in SendInputs :
           (SendMessage(content) /\ Len(sends') > Len(sends)) =>
             /\ RoleAndContent(Tail(Last(sends').client.messages)) =
                  WithoutErrors(CurrentMessages(sessions, currentSessionId))
                    \o <<[role |-> "user", content |-> Trim(content)]>>
             /\ \A k \in 1..Len(Last(sends').client.calls) :
                  Last(sends').client.calls[k].messages = Last(sends').client.messages
      /\ \A i \in SendIndex :
           /\ sends'[i].client.messages = sends[i].client.messages
           /\ \A k \in 1..Len(sends'[i].client.calls) :
                SubSeq(sends'[i].client.calls[k].messages, 1,
                       Len(sends[i].client.messages)) = sends[i].client.messages ]_vars

\* a send made in the stored session that holds an error message is still
\* pending with its three-message history, and the session has been cleared
C12_Witness ==
  /\ Len(sends) = 1
  /\ InFlight(sends[1])
  /\ sends[1].sessionId = StoredA.id
  /\ HasSession(sessions, StoredA.id)
  /\ Find(sessions, StoredA.id).messages = <<>>
  /\ RoleAndContent(Tail(sends[1].client.messages)) =
       << [role |-> "user", content |-> <<"q">>],
          [role |-> "assistant", content |-> <<"A">>],
          [role |-> "user", content |-> <<"h", "i">>] >>

\* C13: the persist effect does not replace the sessions found in storage
\* at mount by the initial empty collection: once the initial load has
\* completed they are the in-memory collection and are still in storage,
\* also when the mount effects run twice.
C13_StoredSurvive ==
  [][(Mount /\ Len(ValidSessions(storage)) > 0) =>
       /\ sessions' = ValidSessions(storage)
       /\ storage' = storage]_vars

FirstUser(ms) ==
  ms[CHOOSE i \in 1..Len(ms) :
       ms[i].role = "user" /\ \A j \in 1..(i - 1) : ms[j].role # "user"]

\* loadSessions() returns one session wrapping the valid legacy messages,
\* removes the legacy key and leaves that session under the current key
MigrationDone ==
  LET messages == ValidMessages(legacy)
      returned == lastOp'.text
  IN  /\ Len(returned) = 1
      /\ returned[1].messages = messages
      /\ returned[1].title =
           IF \E i \in 1..Len(messages) : messages[i].role = "user"
           THEN SubSeq(FirstUser(messages).content, 1,
                       Min(40, Len(FirstUser(messages).content)))
           ELSE <<"Previous Chat">>
      /\ returned[1].createdAt = messages[1].timestamp
      /\ returned[1].updatedAt = messages[Len(messages)].timestamp
      /\ ~legacy'.present
      /\ ValidSessions(storage') = returned

\* the legacy key holds an array with at least one valid message
LegacyHasMessages ==
  legacy.present /\ legacy.kind = "array" /\ Len(ValidMessages(legacy)) > 0

ActiveIsEmpty ==
  \E i \in 1..Len(sessions) :
    sessions[i].id = currentSessionId /\ sessions[i].messages = <<>>

\* C16: a call of createNewSession made while the active session has no
\* message changes neither the collection nor the pointer; it leaves an
\* active session without messages behind, so that of two calls of
\* createNewSession made one after the other the second creates nothing.
C16_NoEmptyRun ==
  [][(CreateNewSession /\ lastOp'.op = "createNewSession") =>
       /\ ActiveIsEmpty =>
            sessions' = sessions /\ currentSessionId' = currentSessionId
       /\ ActiveIsEmpty'
       /\ lastOp.op = "createNewSession" =>
            sessions' = sessions /\ currentSessionId' = currentSessionId]_vars

C16_Witness ==
  /\ lastOp.op = "createNewSession"
  /\ nextId = 1
  /\ Len(sessions) = 3
  /\ sessions[1].id = FreshId(1)
  /\ sessions[1].messages = <<>>
  /\ currentSessionId = FreshId(1)

RECURSIVE Without(_, _)
\* ss without the sessions that have the id, the others in their order
Without(ss, id) ==
  IF ss = <<>> THEN <<>>
  ELSE IF Head(ss).id = id THEN Without(Tail(ss), id)
  ELSE <<Head(ss)>> \o Without(Tail(ss), id)

\* a session as createEmptySession makes it, under an id not in use
IsFreshEmpty(s) ==
  /\ s.id \notin Ids(sessions)
  /\ s.title = NewChatTitle
  /\ s.messages = <<>>
  /\ s.createdAt = s.updatedAt
  /\ s.starred = "absent"

\* C17: deleteSession(id) removes the session with that id and nothing else,
\* the others keeping their order; when it was the only session the
\* collection becomes one fresh empty session, which is made active;
\* otherwise the pointer moves to the first remaining session when the
\* deleted session was the active one, and stays when it was not.
C17_DeleteExactly ==
  [][\A id \in Ids(sessions) \cup {GhostId} :
       DeleteSession(id) =>
         IF Without(sessions, id) = <<>>
         THEN /\ Len(sessions') = 1
              /\ IsFreshEmpty(sessions'[1])
              /\ currentSessionId' = sessions'[1].id
         ELSE /\ sessions' = Without(sessions, id)
              /\ id = currentSessionId => currentSessionId' = sessions'[1].id
              /\ id # currentSessionId => currentSessionId' = currentSessionId]_vars

\* the active session, the first of three, has been deleted
C17_Witness ==
  /\ lastOp.op = "other"
  /\ nextId = 1
  /\ Len(sessions) = 2
  /\ sessions[1].id = StoredA.id
  /\ sessions[2].id = StoredB.id
  /\ currentSessionId = StoredA.id

\* t consists of whitespace only
OnlySpaces(t) == \A k \in 1..Len(t) : t[k] = " "

\* x is t without its leading and trailing whitespace, t having other text
IsTrimOf(x, t) ==
  /\ x # <<>>
  /\ x[1] # " "
  /\ x[Len(x)] # " "
  /\ \E a, b \in 0..Len(t) :
       /\ a + Len(x) + b = Len(t)
       /\ SubSeq(t, a + 1, a + Len(x)) = x
       /\ OnlySpaces(SubSeq(t, 1, a))
       /\ OnlySpaces(SubSeq(t, a + Len(x) + 1, Len(t)))

\* C18: renameSession(id, title) changes nothing when the title is empty or
\* whitespace only; otherwise the session with that id gets the trimmed
\* title and keeps its other fields, and every other session, the order and
\* the pointer are unchanged.
C18_RenameExactly ==
  [][\A id \in Ids(sessions) \cup {GhostId}, t \in RenameInputs :
       RenameSession(id, t) =>
         /\ currentSessionId' = currentSessionId
         /\ Len(sessions') = Len(sessions)
         /\ OnlySpaces(t) => sessions' = sessions
         /\ ~OnlySpaces(t) =>
              \A i \in 1..Len(sessions) :
                IF sessions[i].id = id
                THEN /\ IsTrimOf(sessions'[i].title, t)
                     /\ [sessions'[i] EXCEPT !.title = sessions[i].title] = sessions[i]
                ELSE sessions'[i] = sessions[i]]_vars

\* the second of two stored sessions has been renamed, the first is active
C18_Witness ==
  /\ Len(sessions) = 2
  /\ sessions[1] = StoredA
  /\ sessions[2] = [StoredB EXCEPT !.title = <<"h", "i">>]
  /\ currentSessionId = StoredA.id

\* C19: clearCurrentSession changes neither the collection, the pointer,
\* isLoading nor the status when the confirmation is declined; when it is
\* given, the active session, and no other, has its messages reset to none
\* and its title to 'New Chat', and keeps its id, createdAt and starred.
C19_ClearConfirmed ==
  [][/\ ClearCurrentSession(FALSE) =>
          /\ sessions' = sessions
          /\ currentSessionId' = currentSessionId
          /\ isLoading' = isLoading
          /\ chatStatus' = chatStatus
     /\ ClearCurrentSession(TRUE) =>
          /\ Len(sessions') = Len(sessions)
          /\ \A i \in 1..Len(sessions) :
               IF sessions[i].id = currentSessionId
               THEN /\ sessions'[i].messages = <<>>
                    /\ sessions'[i].title = <<"N", "e", "w", " ", "C", "h", "a", "t">>
                    /\ sessions'[i].id = sessions[i].id
                    /\ sessions'[i].createdAt = sessions[i].createdAt
                    /\ sessions'[i].starred = sessions[i].starred
               ELSE sessions'[i] = sessions[i]]_vars

\* the active one of two stored sessions, starred and holding three
\* messages, has been cleared
C19_Witness ==
  /\ Len(sessions) = 2
  /\ currentSessionId = StoredA.id
  /\ sessions[1].id = StoredA.id
  /\ sessions[1].messages = <<>>
  /\ sessions[1].title = NewChatTitle
  /\ sessions[1].createdAt = "t1"
  /\ sessions[1].starred = "yes"
  /\ sessions[2] = StoredB

\* the send accepted by this step has failed with the missing-key error
\* without a request
FailedForKey ==
  /\ Last(sends').client.result = [kind |-> "err", text |-> MissingKeyText]
  /\ Last(sends').client.calls = <<>>
  /\ Last(sends').promise = "fulfilled"

\* the user message and then the error message are the last two messages
\* of the session with the id
SurfacedIn(ss, id, content) ==
  \E k \in 1..Len(ss) :
    /\ ss[k].id = id
    /\ Len(ss[k].messages) >= 2
    /\ SubSeq(ss[k].messages, Len(ss[k].messages) - 1, Len(ss[k].messages)) =
         << Message("user", content, FALSE),
            Message("assistant", MissingKeyText, TRUE) >>

\* no send has issued a request, to the completion or the search service
NoRequest == \A i \in SendIndex : sends[i].client.calls = <<>>

\* C20: without the completion credential every send fails with the
\* missing-key error before any request is issued, and an assistant message
\* with isError = true follows the user message in the target session.
C20_MissingKeySurfaced ==
  /\ [](~groqKey => NoRequest)
  /\ [][\A content \in SendInputs :
          (SendMessage(content) /\ Len(sends') > Len(sends) /\ ~groqKey) =>
            /\ FailedForKey
            /\ SurfacedIn(sessions', currentSessionId, Trim(content))]_vars

\* C20, amended: the two messages are appended when the target session is
\* in the collection; when the pointer names no session of the collection
\* the send fails in the same way and no session changes.
C20_MissingKeyFails ==
  /\ [](~groqKey => NoRequest)
  /\ [][\A content \in SendInputs :
          (SendMessage(content) /\ Len(sends') > Len(sends) /\ ~groqKey) =>
            /\ FailedForKey
            /\ ~isLoading' /\ chatStatus' = "idle"
            /\ IF HasSession(sessions, currentSessionId)
               THEN /\ SurfacedIn(sessions', currentSessionId, Trim(content))
                    /\ Len(Find(sessions', currentSessionId).messages) =
                         Len(Find(sessions, currentSessionId).messages) + 2
               ELSE sessions' = sessions]_vars

C20_Witness ==
  /\ ~groqKey
  /\ Len(sends) = 1
  /\ sends[1].client.calls = <<>>
  /\ sends[1].client.result.text = MissingKeyText
  /\ sends[1].sessionId = StoredA.id
  /\ SurfacedIn(sessions, StoredA.id, <<"h", "i">>)
  /\ Len(Find(sessions, StoredA.id).messages) = 5

\* The failure the claim gives an error status: the fixed message of the kind,
\* or for a generic status the provider's message when the body carries one
FailureOfStatus(r) ==
  [text |->
     CASE r.status = 401 ->
            <<"Invalid API key. Please check your VITE_GROQ_API_KEY in the .env file.">>
       [] r.status = 429 ->
            <<"Rate limit exceeded. Please wait a moment before sending another message.">>
       [] r.status = 503 -> <<"Service unavailable. Please try again shortly.">>
       [] r.status = 500 -> <<"Groq is experiencing issues. Please try again shortly.">>
       [] OTHER -> IF r.bodyJson /\ r.errMsg # "" THEN <<r.errMsg>>
                   ELSE <<StatusToken(r.status)>>,
   statusCode |-> r.status]

IsErrorStatus(r) == r.kind = "http" /\ r.status # 200

TriggersRetry(r) == r.status = 400 /\ r.bodyJson /\ IsToolGenerationFailure(r.errMsg)

\* the execution of send i has failed as FailureOfStatus(r) says, with the
\* requests it had issued before
FailedAs(i, r) ==
  /\ sends'[i].client.pc = "done"
  /\ sends'[i].client.result = [kind |-> "err", text |-> FailureOfStatus(r).text]
  /\ sends'[i].client.statusCode = FailureOfStatus(r).statusCode
  /\ sends'[i].client.calls = sends[i].client.calls

\* C21: an error status on request 1, unless it is the 400 that triggers the
\* retry, or on request 2 fails the completion with the message and status code
\* of the kind the status alone selects (401, 429, 503, 500 fixed; any other the
\* provider's message when the body has one); a 400 on request 1 that reports
\* another condition fails with that message and status 400, and no retry
\* request is issued.
C21_StatusKinds ==
  [][/\ \A i \in SendIndex, r \in FirstResponses :
          (FirstResponse(i, r) /\ IsErrorStatus(r) /\ ~TriggersRetry(r)) => FailedAs(i, r)
     /\ \A i \in SendIndex, r \in PlainResponses :
          (SecondResponse(i, r) /\ IsErrorStatus(r)) => FailedAs(i, r) ]_vars

\* a 400 on request 1 that reports another condition has ended the execution
\* after that one request
C21_Witness ==
  \E i \in SendIndex :
    /\ Finished(sends[i])
    /\ sends[i].client.statusCode = 400
    /\ sends[i].client.result.text = <<"bad request">>
    /\ Len(sends[i].client.calls) = 1

\* the truth value of s.starred: an absent flag is falsy
IsStarred(s) == s.starred = "yes"

\* s with the starred flag left out of the comparison
Unstarred(s) == [s EXCEPT !.starred = "absent"]

\* ss2 is ss with the starred truth value of exactly the session id negated
FlippedAt(ss, ss2, id) ==
  /\ Len(ss2) = Len(ss)
  /\ \A k \in 1..Len(ss) :
       /\ Unstarred(ss2[k]) = Unstarred(ss[k])
       /\ IF ss[k].id = id THEN /\ IsStarred(ss2[k]) = ~IsStarred(ss[k])
                                /\ ss2[k].starred # "absent"
          ELSE ss2[k].starred = ss[k].starred

SameStars(ss, ss2) ==
  /\ Len(ss2) = Len(ss)
  /\ \A k \in 1..Len(ss) :
       /\ Unstarred(ss2[k]) = Unstarred(ss[k])
       /\ IsStarred(ss2[k]) = IsStarred(ss[k])

\* C22: toggleStarSession(id) negates the starred flag of exactly the session
\* with that id, an absent flag counting as false and becoming true; order,
\* messages, titles and every other field of every session and the active
\* pointer stay as they were; toggling the same id twice gives back the
\* starred truth value of every session.
C22_ToggleStar ==
  /\ [](\A id \in IdInputs :
          SameStars(sessions, toggleStarSession(toggleStarSession(sessions, id), id)))
  /\ [][\A id \in IdInputs :
          ToggleStarSession(id) =>
            /\ FlippedAt(sessions, sessions', id)
            /\ currentSessionId' = currentSessionId ]_vars

\* the second of two sessions was toggled twice and holds a message; the first
\* never was
C22_Witness ==
  /\ Len(sessions) = 2
  /\ sessions[1].starred = "absent"
  /\ sessions[2].starred = "no"
  /\ sessions[2].messages # <<>>

InMemoryUnchanged == UNCHANGED <<sessions, currentSessionId, isLoading, chatStatus>>

\* C23: saveSessions whose write fails and clearAllSessions whose removal fails
\* return to the caller without an exception, a failed write leaves the stored
\* value as it was, neither call changes the collection, the pointer,
\* isLoading or the status, and clearAllSessions removes the current-schema key
\* and the legacy key when no removal fails.
C23_BestEffort ==
  [][/\ SaveSessions =>
          /\ lastOp'.id = Returned
          /\ InMemoryUnchanged
          /\ ~writable => storage' = storage
     /\ \A fails \in RemovalFailures :
          ClearAllSessions(fails) =>
            /\ lastOp'.id = Returned
            /\ InMemoryUnchanged
            /\ fails = 0 => ~storage'.present /\ ~legacy'.present ]_vars

\* saveSessions has returned from a failed write of a non-empty collection:
\* the key is still absent
C23_Witness ==
  /\ lastOp.op = "saveSessions"
  /\ lastOp.id = Returned
  /\ ~writable
  /\ sessions # <<>>
  /\ ~storage.present
  /\ legacy.present

RECURSIVE EmptyCount(_)
\* the number of sessions of ss that have no message
EmptyCount(ss) ==
  IF ss = <<>> THEN 0
  ELSE (IF Head(ss).messages = <<>> THEN 1 ELSE 0) + EmptyCount(Tail(ss))

NoSendPending == \A i \in SendIndex : Finished(sends[i])

\* C24 as claimed: from the single empty session of a first visit, whenever
\* every sendMessage call has completed, at most one session of the
\* collection has no message.
C24_AtMostOneEmpty ==
  (hasLoaded /\ NoSendPending) => EmptyCount(sessions) <= 1

\* C24: createNewSession adds nothing while the active session is empty:
\* after the load the number of sessions without a message grows only by a
\* createNewSession call made while the pointer names a session with messages
\* or no session at all, and it then grows by exactly one, the new session
\* being first and active; switchSession and sendMessage never raise it.
C24_EmptyOnlyPastNonEmpty ==
  [][(hasLoaded /\ EmptyCount(sessions') > EmptyCount(sessions)) =>
       /\ ~ActiveIsEmpty
       /\ EmptyCount(sessions') = EmptyCount(sessions) + 1
       /\ currentSessionId' # currentSessionId
       /\ sessions' = <<createEmptySession(currentSessionId')>> \o sessions ]_vars

\* two sessions without a message: one created, left for the session that
\* holds a completed exchange, and another created from there
C24_Witness ==
  /\ NoSendPending
  /\ Len(sessions) = 3
  /\ sessions[1].messages = <<>>
  /\ sessions[2].messages = <<>>
  /\ Len(sessions[3].messages) = 2
  /\ currentSessionId = sessions[1].id

\* the current-schema key yields no valid session
NoCurrentSession == Len(ValidSessions(storage)) = 0

\* C25 as claimed: whenever the current-schema key yields no valid session,
\* its text being absent, not JSON, no array or an array without a valid
\* session, loadSessions() returns an empty collection only when the legacy
\* key yields no valid message, and the sessions migrated from it otherwise.
C25_MigratesWhenever ==
  [][(LoadSessions /\ NoCurrentSession) =>
       /\ lastOp'.text = <<>> <=> ~LegacyHasMessages
       /\ LegacyHasMessages => ~legacy'.present ]_vars

\* C25, amended: the same when the text under the current-schema key is
\* absent, empty or JSON; when it is not JSON, loadSessions() returns an empty
\* collection and leaves both keys as they are, whatever the legacy key holds;
\* a current-schema key with a valid session is returned without migration.
C25_MigratesWhenParsed ==
  [][LoadSessions =>
       /\ (NoCurrentSession /\ storage.kind # "garbage") =>
            /\ lastOp'.text = <<>> <=> ~LegacyHasMessages
            /\ LegacyHasMessages => ~legacy'.present
       /\ storage.kind = "garbage" =>
            lastOp'.text = <<>> /\ UNCHANGED <<storage, legacy>>
       /\ ~NoCurrentSession =>
            lastOp'.text = ValidSessions(storage) /\ UNCHANGED <<storage, legacy>> ]_vars

\* loadSessions() has returned an empty collection although the legacy key
\* holds valid messages: the text under the current-schema key is not JSON
C25_Witness ==
  /\ lastOp.op = "loadSessions"
  /\ lastOp.text = <<>>
  /\ storage = KeyText("garbage")
  /\ LegacyHasMessages

\* the roles of the Message type
MessageRoles == {"user", "assistant", "system"}

\* C26: for a stored array, loadSessions() returns the entries that pass
\* isValidSession in their stored order, each with the messages that pass
\* isValidMessage in their stored order, and every message it returns has one
\* of the roles user, assistant and system.
C26_ValidEntries ==
  [][(LoadSessions /\ ~NoCurrentSession) =>
       /\ lastOp'.text = ValidSessions(storage)
       /\ \A k \in 1..Len(lastOp'.text) :
            \A j \in 1..Len(lastOp'.text[k].messages) :
              lastOp'.text[k].messages[j].role \in MessageRoles ]_vars

HasUserMessage(s) == \E j \in 1..Len(s.messages) : s.messages[j].role = "user"

\* text cut to its first 40 characters
First40(text) == SubSeq(text, 1, IF Len(text) < 40 THEN Len(text) ELSE 40)

TitlesUnchanged ==
  /\ Len(sessions') = Len(sessions)
  /\ \A k \in 1..Len(sessions) : sessions'[k].title = sessions[k].title

\* C27: a sendMessage call that passes the early return sets the title of the
\* session it targets to the trimmed input cut to 40 characters when that
\* session holds no user message, leaves it as it is when the session holds
\* one, and leaves every other title alone; the response or the error
\* appended later changes no title.
C27_AutoTitle ==
  [][/\ \A content \in TitleInputs :
          (SendMessage(content) /\ Len(sends') > Len(sends)) =>
            /\ Len(sessions') = Len(sessions)
            /\ \A k \in 1..Len(sessions) :
                 sessions'[k].title =
                   IF sessions[k].id = Last(sends').sessionId /\ ~HasUserMessage(sessions[k])
                   THEN First40(Trim(content))
                   ELSE sessions[k].title
     /\ \A i \in SendIndex, r \in DirectResponses :
          FirstResponse(i, r) => TitlesUnchanged ]_vars

\* the answer to a first message of 41 characters has arrived: the title is
\* the first 40 of them
C27_Witness ==
  \E k \in 1..Len(sessions) :
    /\ Len(sends) = 1 /\ Finished(sends[1])
    /\ sessions[k].id = sends[1].sessionId
    /\ Len(sessions[k].messages) = 2
    /\ Len(sessions[k].messages[1].content) = 41
    /\ sessions[k].title = [i \in 1..40 |-> "y"]

\* C28 as claimed: every title has at most 40 characters when every rename
\* is made through the rename field.
C28_TitlesAtMost40 ==
  \A k \in 1..Len(sessions) : Len(sessions[k].title) <= 40

\* C28: every title has at most 60 characters, the maxLength of the rename
\* field, when every rename is made through that field and the stored titles
\* were written by the application.
C28_TitlesAtMost60 ==
  \A k \in 1..Len(sessions) : Len(sessions[k].title) <= 60

\* a session renamed to 60 characters through the rename field
C28_Witness ==
  \E k \in 1..Len(sessions) :
    /\ Len(sessions[k].title) = 60
    /\ storage = saveSessions(KeyAbsent, sessions, TRUE)

\* m is a chat message of the store: a user or assistant message that is not
\* the system prompt and has the fields of Message, none of the protocol
IsChatMessage(m) ==
  /\ m.role \in {"user", "assistant"}
  /\ m.content # SystemPrompt
  /\ DOMAIN m = {"id", "role", "content", "timestamp", "isError"}

OnlyChatMessages(ss) ==
  \A k \in 1..Len(ss) : \A j \in 1..Len(ss[k].messages) : IsChatMessage(ss[k].messages[j])

\* C29: every message of every session, in memory and under the
\* current-schema key, has role user or assistant: the system prompt, the
\* assistant message carrying the tool calls and the tool result, which
\* sendChatMessage adds to the exchange with the provider, are never appended
\* to a session.
C29_NoProtocolStored ==
  OnlyChatMessages(sessions) /\ OnlyChatMessages(ValidSessions(storage))

\* a send answered after a web search is finished and persisted: the exchange
\* held the system prompt, the tool calls and the tool result, the session
\* got the answer
C29_Witness ==
  \E i \in SendIndex :
    /\ Finished(sends[i])
    /\ sends[i].client.result.kind = "ok"
    /\ Last(sends[i].client.calls).messages[1] = PMsg("system", SystemPrompt)
    /\ Last(Last(sends[i].client.calls).messages).role = "tool"
    /\ Last(sends[i].client.calls).messages[Len(Last(sends[i].client.calls).messages) - 1]
         .tool_calls # <<>>
    /\ Last(Find(sessions, sends[i].sessionId).messages) =
         Message("assistant", sends[i].client.result.text, FALSE)
    /\ ValidSessions(storage) = sessions

\* b is a with one message added at the end
ExtendedByOne(a, b) == Len(b) = Len(a) + 1 /\ SubSeq(b, 1, Len(a)) = a

\* C30: in every step of the store, the messages of a session that is in the
\* collection before and after are the same as before, or the same with one
\* message added at the end, or none at all, the latter only when the step is
\* a confirmed clearCurrentSession of that session; no message is changed,
\* moved or taken out on its own.
C30_AppendOnly ==
  [][\A k \in 1..Len(sessions) : \A n \in 1..Len(sessions') :
       sessions'[n].id = sessions[k].id =>
         \/ sessions'[n].messages = sessions[k].messages
         \/ ExtendedByOne(sessions[k].messages, sessions'[n].messages)
         \/ /\ sessions'[n].messages = <<>>
            /\ ClearCurrentSession(TRUE)
            /\ sessions[k].id = view.currentSessionId ]_vars

\* the session a send was made in got the user message and the answer and
\* was emptied by a clear afterwards, next to another session
C30_Witness ==
  /\ Len(sends) = 1
  /\ Finished(sends[1])
  /\ sends[1].client.result.kind = "ok"
  /\ HasSession(sessions, sends[1].sessionId)
  /\ Find(sessions, sends[1].sessionId).messages = <<>>
  /\ Len(sessions) = 2

\* the request 2 of an execution that got as far as issuing it
IssuedSecond(c) ==
  c.tool_calls # <<>> /\ Len(c.calls) >= 2 /\ Last(c.calls).to = "completion"

\* every tool call of an assistant message of ms is answered by a tool
\* message of ms
ToolCallsAnswered(ms) ==
  \A a \in 1..Len(ms) : \A t \in 1..Len(ms[a].tool_calls) :
    \E b \in 1..Len(ms) :
      ms[b].role = "tool" /\ ms[b].tool_call_id = ms[a].tool_calls[t].id

\* C31: request 2 declares no tool; its messages are those of request 1, then
\* one assistant message without content that carries the tool calls of the
\* first response, then one tool message whose tool_call_id is the id of the
\* first tool call; every tool call of the assistant message is answered by a
\* tool message, whatever the number of tool calls the model returned.
C31_SecondRequest ==
  \A i \in SendIndex :
    LET c == sends[i].client
        first == c.calls[1].messages
        second == Last(c.calls).messages
    IN  IssuedSecond(c) =>
          /\ ~Last(c.calls).tools
          /\ Len(second) = Len(first) + 2
          /\ SubSeq(second, 1, Len(first)) = first
          /\ second[Len(first) + 1].role = "assistant"
          /\ second[Len(first) + 1].nullContent
          /\ second[Len(first) + 1].tool_calls = c.tool_calls
          /\ second[Len(first) + 2].role = "tool"
          /\ second[Len(first) + 2].tool_call_id = c.tool_calls[1].id
          /\ ToolCallsAnswered(second)

\* the requests of cs sent to `to`
CallsTo(cs, to) == LET IsTo(call) == call.to = to IN SelectSeq(cs, IsTo)

\* C32: a 400 reporting a failed function call in answer to request 2 ends
\* the execution with that message and status 400 and without a further
\* request; an execution issues at most two completion requests and at most
\* one search request, and the search request comes directly after request 1
\* and is followed by nothing but request 2.
C32_RetryOnFirstOnly ==
  /\ [](\A i \in SendIndex :
          LET cs == sends[i].client.calls
          IN  /\ Len(CallsTo(cs, "completion")) <= 2
              /\ Len(CallsTo(cs, "search")) <= 1
              /\ \A n \in 1..Len(cs) :
                   cs[n].to = "search" =>
                     /\ n = 2
                     /\ cs[1].to = "completion" /\ cs[1].tools
                     /\ Len(cs) <= 3
                     /\ Len(cs) = 3 => cs[3].to = "completion" /\ ~cs[3].tools)
  /\ [][\A i \in SendIndex, r \in PlainResponses :
          (SecondResponse(i, r) /\ r.kind = "http" /\ r.status = 400
             /\ r.bodyJson /\ IsToolGenerationFailure(r.errMsg)) =>
            /\ Finished(sends'[i])
            /\ sends'[i].client.result = [kind |-> "err", text |-> <<r.errMsg>>]
            /\ sends'[i].client.statusCode = 400
            /\ sends'[i].client.calls = sends[i].client.calls ]_vars

\* request 2, issued after a search, was answered by the 400 of a failed
\* function call: the execution ended after three requests
C32_Witness ==
  \E i \in SendIndex :
    /\ Finished(sends[i])
    /\ Len(sends[i].client.calls) = 3
    /\ sends[i].client.calls[2].to = "search"
    /\ sends[i].client.result = [kind |-> "err", text |-> <<ToolFailureMessage>>]
    /\ sends[i].client.statusCode = 400

SomeSendInFlight == \E i \in SendIndex : InFlight(sends[i])

\* C33: the status is idle exactly when isLoading is false, and it is
\* thinking or searching only while a send is in flight; searching is entered
\* from thinking only and left for thinking only; once every send has
\* completed the status is idle and stays so until the next accepted send.
C33_StatusFollowsLoading ==
  /\ [](/\ chatStatus \in {"idle", "thinking", "searching"}
        /\ (chatStatus = "idle") <=> ~isLoading
        /\ isLoading => SomeSendInFlight)
  /\ [][/\ (chatStatus' = "searching" /\ chatStatus # "searching") =>
             chatStatus = "thinking"
        /\ (chatStatus = "searching" /\ chatStatus' # "searching") =>
             chatStatus' = "thinking"
        /\ (~SomeSendInFlight /\ chatStatus' # "idle") =>
             Len(sends') = Len(sends) + 1 ]_vars

\* a send that went through the search has completed: the store is idle
C33_Witness ==
  \E i \in SendIndex :
    /\ Finished(sends[i])
    /\ sends[i].client.statusLog = ThinkingSearchingThinking
    /\ chatStatus = "idle"
    /\ ~isLoading

MessagesOf(ss, id) == Find(ss, id).messages

\* the target of send i is in the collection and still ends with the user
\* message of the send: it was neither deleted nor cleared since
TargetKept(i) ==
  /\ HasSession(sessions, sends[i].sessionId)
  /\ MessagesOf(sessions, sends[i].sessionId) # <<>>

\* C34: an accepted sendMessage appends the user message to its target at
\* once; while the send is in flight that message stays the last one of the
\* target unless the target is cleared or deleted; the completion then
\* appends exactly one assistant message, the response or the isError
\* message, right after it; and no step appends to a session other than the
\* target of the send it starts or completes.
C34_TwoMessages ==
  /\ [](\A i \in SendIndex :
          (InFlight(sends[i]) /\ TargetKept(i)) =>
            Last(MessagesOf(sessions, sends[i].sessionId)) =
              Message("user", sends[i].content, FALSE))
  /\ [][/\ \A content \in SendInputs :
             (/\ SendMessage(content)
              /\ Len(sends') > Len(sends)
              /\ HasSession(sessions, currentSessionId)) =>
               MessagesOf(sessions', currentSessionId) =
                 Append(MessagesOf(sessions, currentSessionId),
                        Message("user", Trim(content), FALSE))
        /\ \A i \in SendIndex, r \in DirectResponses :
             (FirstResponse(i, r) /\ TargetKept(i)) =>
               MessagesOf(sessions', sends[i].sessionId) =
                 Append(MessagesOf(sessions, sends[i].sessionId),
                        Message("assistant", sends'[i].client.result.text,
                                sends'[i].client.result.kind = "err"))
        /\ \A k \in 1..Len(sessions) : \A n \in 1..Len(sessions') :
             (/\ sessions'[n].id = sessions[k].id
              /\ Len(sessions'[n].messages) > Len(sessions[k].messages)) =>
               \/ /\ Len(sends') = Len(sends) + 1
                  /\ Last(sends').sessionId = sessions[k].id
               \/ \E i \in SendIndex :
                    /\ InFlight(sends[i]) /\ Finished(sends'[i])
                    /\ sends[i].sessionId = sessions[k].id ]_vars

\* a send made in one of two sessions has completed: its target ends with
\* the user message and the answer, the other session has no message
C34_Witness ==
  /\ Len(sends) = 1 /\ Finished(sends[1])
  /\ Len(sessions) = 2
  /\ HasSession(sessions, sends[1].sessionId)
  /\ MessagesOf(sessions, sends[1].sessionId) =
       << Message("user", sends[1].content, FALSE),
          Message("assistant", sends[1].client.result.text, FALSE) >>
  /\ \E k \in 1..2 : sessions[k].messages = <<>>

\* the target of send i was in the collection when the send was accepted and
\* is not any more
TargetDeleted(i) ==
  /\ sends[i].sessionId # GhostId
  /\ ~HasSession(sessions, sends[i].sessionId)

\* C35: when the target of a send has been deleted while the send was in
\* flight, the step that completes the send leaves the collection and the
\* pointer as they are, so that no session receives the response or the
\* error, and sets isLoading to false and the status to idle.
C35_DiscardedAfterDelete ==
  [][\A i \in SendIndex, r \in DirectResponses :
       (FirstResponse(i, r) /\ TargetDeleted(i)) =>
         /\ Finished(sends'[i])
         /\ sessions' = sessions
         /\ currentSessionId' = currentSessionId
         /\ ~isLoading'
         /\ chatStatus' = "idle" ]_vars

\* the answer to a send arrived after its target, the session of the first
\* visit, was deleted: no session holds a message and the store is idle
C35_Witness ==
  /\ Len(sends) = 1 /\ Finished(sends[1])
  /\ sends[1].client.result.kind = "ok"
  /\ sends[1].sessionId = MountId
  /\ TargetDeleted(1)
  /\ \A k \in 1..Len(sessions) : sessions[k].messages = <<>>
  /\ ~isLoading /\ chatStatus = "idle"

\* the target of send i is in the collection without any message: it was
\* cleared after the send put its user message there
TargetCleared(i) ==
  /\ HasSession(sessions, sends[i].sessionId)
  /\ MessagesOf(sessions, sends[i].sessionId) = <<>>

\* C36: a confirmed clearCurrentSession leaves a send in flight as it is, on
\* its target too; the cleared target has the placeholder title, and the
\* completion of the send appends its assistant message to it, which is then
\* the only message of the session, without a user message before it, and
\* does not change the title.
C36_ClearDoesNotCancel ==
  /\ [](\A i \in SendIndex :
          (InFlight(sends[i]) /\ TargetCleared(i)) =>
            Find(sessions, sends[i].sessionId).title = NewChatTitle)
  /\ [][/\ ClearCurrentSession(TRUE) => sends' = sends /\ isLoading' = isLoading
        /\ \A i \in SendIndex, r \in DirectResponses :
             (FirstResponse(i, r) /\ TargetCleared(i)) =>
               /\ MessagesOf(sessions', sends[i].sessionId) =
                    << Message("assistant", sends'[i].client.result.text,
                               sends'[i].client.result.kind = "err") >>
               /\ Find(sessions', sends[i].sessionId).title = NewChatTitle ]_vars

\* the answer arrived after the target was cleared: it is the only message
\* of the session, under the placeholder title
C36_Witness ==
  /\ Len(sends) = 1 /\ Finished(sends[1])
  /\ HasSession(sessions, sends[1].sessionId)
  /\ MessagesOf(sessions, sends[1].sessionId) =
       << Message("assistant", sends[1].client.result.text, FALSE) >>
  /\ Find(sessions, sends[1].sessionId).title = NewChatTitle
  /\ sends[1].content = Trim(HiInput)

\* the pointer the render captured is set and names no session
PointerDangles ==
  view.currentSessionId # NoId /\ ~HasSession(view.sessions, view.currentSessionId)

\* C37: with a pointer that is set but names no session, a sendMessage call
\* with non-blank content and no send in flight is accepted: it sets
\* isLoading and issues request 1 with the system prompt and the new user
\* message as its only history; neither the call nor the completion of the
\* send changes any session.
C37_SendWithoutSession ==
  [][/\ \A content \in SendInputs :
          (/\ SendMessage(content)
           /\ PointerDangles /\ Trim(content) # <<>> /\ ~view.isLoading) =>
            /\ Len(sends') = Len(sends) + 1
            /\ isLoading' /\ chatStatus' = "thinking"
            /\ Last(sends').client.calls =
                 << CompletionCall(<< PMsg("system", SystemPrompt),
                                      PMsg("user", Trim(content)) >>, TRUE) >>
            /\ sessions' = sessions
     /\ \A i \in SendIndex, r \in DirectResponses :
          (FirstResponse(i, r) /\ ~HasSession(sessions, sends[i].sessionId)) =>
            sessions' = sessions /\ ~isLoading' ]_vars

\* a send made under a pointer to no session was answered: the session of
\* the first visit is still without messages
C37_Witness ==
  /\ Len(sends) = 1 /\ Finished(sends[1])
  /\ sends[1].sessionId = GhostId
  /\ sends[1].client.result.kind = "ok"
  /\ Len(sends[1].client.calls[1].messages) = 2
  /\ Len(sessions) = 1 /\ sessions[1].messages = <<>>

\* the first 50 sessions of ss
First50(ss) == SubSeq(ss, 1, IF Len(ss) < 50 THEN Len(ss) ELSE 50)

LegacyRetrievable ==
  \/ ValidMessages(legacy') = ValidMessages(legacy)
  \/ \E k \in 1..Len(ValidSessions(storage')) :
       ValidSessions(storage')[k].messages = ValidMessages(legacy)

\* C39: a loadSessions() call made while the legacy key holds valid messages
\* leaves them retrievable from storage, under the legacy key or in a session
\* under the current-schema key, also when the write of the migrated session
\* fails.
C39_MigrationCrashSafe ==
  [][(LoadSessions /\ LegacyHasMessages) => LegacyRetrievable]_vars

\* the titles renameSession can have set from the rename field
RenamedTitles == {Trim(editTitle) : editTitle \in RenameField} \ {<<>>}

\* C40: a sendMessage call that passes the early return replaces the title a
\* rename has given to its target by the trimmed input cut to 40 characters
\* when the target holds no user message, and keeps it when the target holds
\* one; the response or the error appended later and the render keep the
\* renamed title of every session that holds a user message.
C40_RenamedTitle ==
  [][/\ \A content \in TitleInputs :
          (SendMessage(content) /\ Len(sends') > Len(sends)) =>
            /\ Len(sessions') = Len(sessions)
            /\ \A k \in 1..Len(sessions) :
                 (sessions[k].id = Last(sends').sessionId
                    /\ sessions[k].title \in RenamedTitles) =>
                   sessions'[k].title =
                     IF HasUserMessage(sessions[k])
                     THEN sessions[k].title
                     ELSE First40(Trim(content))
     /\ ((\E i \in SendIndex, r \in DirectResponses : FirstResponse(i, r)) \/ Render) =>
          /\ Len(sessions') = Len(sessions)
          /\ \A k \in 1..Len(sessions) :
               (HasUserMessage(sessions[k]) /\ sessions[k].title \in RenamedTitles) =>
                 sessions'[k].title = sessions[k].title ]_vars

\* sendMessage was called on a session renamed to 60 characters and without
\* messages: the session now holds the message sent and the first 40
\* characters of it as title
C40_Witness ==
  /\ lastOp.op = "sendMessage"
  /\ lastOp.text = [i \in 1..60 |-> "z"]
  /\ HasSession(sessions, lastOp.id)
  /\ Find(sessions, lastOp.id).title = [i \in 1..40 |-> "y"]
  /\ Len(Find(sessions, lastOp.id).messages) = 1
  /\ Find(sessions, lastOp.id).messages[1].role = "user"

====
